---- MODULE Spec2Model ----
(***************************************************************************)
(* Model of the society-management application: the IndexedDB data-access  *)
(* layer (db.ts), the React flows that use it (App.tsx) and the export     *)
(* helpers (utils.ts).                                                     *)
(*                                                                         *)
(* JavaScript is single threaded: a flow runs without interruption up to   *)
(* its next `await`.  Every store function starts with `await getDB()`, so *)
(* the call of a store function is one step (it runs getDB synchronously)  *)
(* and the execution of its IndexedDB request, together with the           *)
(* continuation of the caller up to the caller's next await, is a second   *)
(* step, enabled once the connection promise is fulfilled.                 *)
(*                                                                         *)
(* An optional value (`undefined`, `null`) is a set with at most one       *)
(* element.                                                                *)
(***************************************************************************)
EXTENDS Integers, Sequences, FiniteSets, TLC

\* ---------------------------------------------------------------- bounds
NumForms == 2
MaxReceipts == 3
MaxExpenses == 2
MaxLoads == 2
NumStartups == 2
NumLogins == 1
NumChanges == 2
NumSaves == 2

\* ------------------------------------------------------------- constants
DB_VERSION == 1
SETTINGS_KEY == 1
PAD_LENGTH == 4

VARIABLES
    dbPromise,        \* db.ts `dbPromise`: 0 is null, else the id of a promise
    promises,         \* state of every promise openDB has returned
    upgradeCalls,     \* number of runs of the upgrade callback
    dbVersion,        \* version of the database on disk (0: absent)
    objectStoreNames, \* object stores of the database on disk
    objectStores,     \* their key paths, key generators and indexes
    receipts,         \* object store 'receipts', in key order
    receiptsKeyGen,   \* key generator of 'receipts' (last key handed out)
    expenses,         \* object store 'expenses', in key order
    expensesKeyGen,   \* key generator of 'expenses'
    settings,         \* object store 'settings' (set of records, key id)
    auth,             \* object store 'auth' (set of records, key username)
    form,             \* NewReceiptPage instances: mounted, receiptCount
    fetchLastReceipt, \* per form: the effect's fetch
    onSubmit,         \* per form: the submit handler
    addLog,           \* history: receipt numbers an add has been run for
    settingsCtx,      \* SettingsProvider state `settings`
    loadSettings,     \* calls of SettingsProvider.loadSettings: call 0 is the
                      \* one of the mount effect, call s the one of save s
    settingsPage,     \* SettingsPage: mounted, the form values, the sigPad
    settingsSubmit,   \* calls of SettingsPage.onSubmit
    fileUpload,       \* SettingsPage.handleFileUpload and its reader.onload
    expensesPage,     \* ExpensesPage state: mounted, mode, expenses
    savedReport,      \* what doc.save('Expense_Report.pdf') last wrote, if anything
    window,           \* the globals of the export libraries: window.jspdf,
                      \* window.html2canvas, window.XLSX
    exportCall,       \* the last call of an export function and its outcome
    expenseSubmit,    \* ExpensesPage.onSubmit
    loadExpenses,     \* db handles of the loadExpenses calls in flight
    isAuthenticated,  \* AuthProvider state `isAuthenticated`
    sessionStorage,   \* sessionStorage item 'isAuthenticated'
    checkAuth,        \* runs of the AuthProvider mount effect
    login,            \* calls of AuthProvider.login
    changePassword,   \* calls of ChangePasswordForm.onSubmit
    authLog           \* history, kept by SpecAuthLog: the last change of
                      \* password that succeeded, and the logins in flight
                      \* that were called after it

storeVars == <<dbPromise, promises, upgradeCalls, dbVersion, objectStoreNames,
               objectStores, receipts, receiptsKeyGen, expenses, expensesKeyGen, settings, auth>>
connVars == <<dbPromise, promises>>
diskVars == <<upgradeCalls, dbVersion, objectStoreNames, objectStores>>
receiptVars == <<form, fetchLastReceipt, onSubmit, addLog>>
settingsVars == <<settingsCtx, loadSettings, settingsPage, settingsSubmit, fileUpload>>
exportVars == <<savedReport, window, exportCall>>
expenseVars == <<expensesPage, expenseSubmit, loadExpenses, exportVars>>
sessionVars == <<isAuthenticated, sessionStorage, checkAuth, login, changePassword, authLog>>
vars == <<storeVars, receiptVars, settingsVars, expenseVars, sessionVars>>

Forms == 1..NumForms
Startups == 1..NumStartups
Logins == 1..NumLogins
Changes == 1..NumChanges
Saves == 1..NumSaves

\* ------------------------------------------------------------ pure helpers
RECURSIVE padEnd(_, _, _)
\* the fill is appended instead of prepended
padEnd(s, targetLength, fill) ==
    IF Len(s) >= targetLength THEN s ELSE padEnd(s \o fill, targetLength, fill)

RECURSIVE padStart(_, _, _)
\* String.prototype.padStart with a one-character fill string
padStart(s, targetLength, fill) ==
    IF Len(s) >= targetLength THEN s ELSE padStart(fill \o s, targetLength, fill)

\* a number that leaves one out
receiptNumberSkipping(receiptCount) ==
    "NSM-" \o padStart(ToString(receiptCount + 2), PAD_LENGTH, "0")

\* the number of the last receipt instead of the next one
receiptNumberOfCount(receiptCount) ==
    "NSM-" \o padStart(ToString(receiptCount), PAD_LENGTH, "0")

\* App.tsx: `NSM-${String(receiptCount + 1).padStart(4, '0')}`
receiptNumber(receiptCount) ==
    "NSM-" \o padStart(ToString(receiptCount + 1), PAD_LENGTH, "0")

\* Number(data.amount) for the amounts the forms enter
AmountInputs == {"500"}
Number(s) == CASE s = "500" -> 500 [] s = "250" -> 250

\* the values react-hook-form hands to NewReceiptPage.onSubmit
ReceiptFormData ==
    { [name |-> n, blockNumber |-> "12", amount |-> a, date |-> "2024-01-01",
       forMonth |-> "2024-01", paymentMethod |-> "Cash"] :
         n \in {"A"}, a \in AmountInputs }

Range(s) == { s[i] : i \in DOMAIN s }

\* a generator that is not advanced after its first key
NextKeyStuck(keyGen) == IF keyGen = 0 THEN 1 ELSE keyGen

\* key generator of an autoIncrement object store: the next key
NextKey(keyGen) == keyGen + 1

\* an index created without { unique: true }
NoUniqueIndex(store, rec) == FALSE

\* the unique index 'receiptNumber' rejects a record whose value is present
ViolatesUniqueIndex(store, rec) ==
    \E r \in Range(store) : r.receiptNumber = rec.receiptNumber

\* ------------------------------------------------------------- connection
\* getDB without the `if (!dbPromise)` guard
getDBUnguarded ==
    /\ promises' = Append(promises, "pending")
    /\ dbPromise' = Len(promises) + 1

\* the promise has been rejected: openDB failed with StorageUnavailable
Rejected(p) == p \in DOMAIN promises /\ promises[p] = "rejected"

\* a getDB that opens again once the open it holds has failed
getDBRetry ==
    IF dbPromise = 0 \/ Rejected(dbPromise)
    THEN /\ promises' = Append(promises, "pending")
         /\ dbPromise' = Len(promises) + 1
    ELSE UNCHANGED <<dbPromise, promises>>

\* getDB(): the value returned is dbPromise'
getDB ==
    IF dbPromise = 0
    THEN /\ promises' = Append(promises, "pending")
         /\ dbPromise' = Len(promises) + 1
    ELSE UNCHANGED <<dbPromise, promises>>

Fulfilled(p) == p \in DOMAIN promises /\ promises[p] = "fulfilled"

\* openDB fails: the platform denies access, the promise is rejected and the
\* disk is left as it was
OpenReject(p) ==
    /\ p \in DOMAIN promises
    /\ promises[p] = "pending"
    /\ promises' = [promises EXCEPT ![p] = "rejected"]
    /\ UNCHANGED <<dbPromise, diskVars, receipts, receiptsKeyGen, expenses, expensesKeyGen,
                   settings, auth>>
    /\ UNCHANGED <<sessionVars, receiptVars, settingsVars, expenseVars>>

\* receipts created like the other stores, without the index
createObjectStoreNoIndex(name) ==
    CASE name = "receipts" ->
           [name |-> name, keyPath |-> "id", autoIncrement |-> TRUE, indexes |-> {}]
      [] name = "expenses" ->
           [name |-> name, keyPath |-> "id", autoIncrement |-> TRUE, indexes |-> {}]
      [] name = "settings" ->
           [name |-> name, keyPath |-> "id", autoIncrement |-> FALSE, indexes |-> {}]
      [] name = "auth" ->
           [name |-> name, keyPath |-> "username", autoIncrement |-> FALSE,
            indexes |-> {}]

\* db.createObjectStore(name, options), and store.createIndex for receipts,
\* as the upgrade callback calls them
createObjectStore(name) ==
    CASE name = "receipts" ->
           [name |-> name, keyPath |-> "id", autoIncrement |-> TRUE,
            indexes |-> {[name |-> "receiptNumber", keyPath |-> "receiptNumber",
                          unique |-> TRUE]}]
      [] name = "expenses" ->
           [name |-> name, keyPath |-> "id", autoIncrement |-> TRUE, indexes |-> {}]
      [] name = "settings" ->
           [name |-> name, keyPath |-> "id", autoIncrement |-> FALSE, indexes |-> {}]
      [] name = "auth" ->
           [name |-> name, keyPath |-> "username", autoIncrement |-> FALSE,
            indexes |-> {}]

\* the four `if (!db.objectStoreNames.contains(name))` of the upgrade
\* callback: the stores as they are after it
createMissing(stores) ==
    stores \cup { createObjectStore(name) :
                    name \in {"receipts", "expenses", "settings", "auth"}
                              \ { st.name : st \in stores } }

\* the upgrade callback: create the object stores that are missing
upgrade == objectStoreNames \cup {"receipts", "expenses", "settings", "auth"}

\* openDB resolves: the upgrade callback runs when the disk version is older
OpenResolve(p) ==
    /\ p \in DOMAIN promises
    /\ promises[p] = "pending"
    /\ promises' = [promises EXCEPT ![p] = "fulfilled"]
    /\ IF dbVersion < DB_VERSION
       THEN /\ objectStoreNames' = upgrade
            /\ objectStores' = createMissing(objectStores)
            /\ upgradeCalls' = upgradeCalls + 1
            /\ dbVersion' = DB_VERSION
       ELSE UNCHANGED diskVars
    /\ UNCHANGED <<dbPromise, receipts, receiptsKeyGen, expenses, expensesKeyGen,
                   settings, auth>>
    /\ UNCHANGED <<sessionVars, receiptVars, settingsVars, expenseVars>>

\* a failed request whose transaction is not aborted: the record stays
AddToReceiptsNoAbort(store, keyGen, rec) ==
    IF ViolatesUniqueIndex(store, rec)
    THEN [ok |-> FALSE,
          store |-> Append(store, [rec EXCEPT !.id = NextKey(keyGen)]),
          keyGen |-> NextKey(keyGen), key |-> 0]
    ELSE [ok |-> TRUE,
          store |-> Append(store, [rec EXCEPT !.id = NextKey(keyGen)]),
          keyGen |-> NextKey(keyGen), key |-> NextKey(keyGen)]

\* ------------------------------------------------- object store requests
\* db.add on an autoIncrement store with a unique index on receiptNumber.
\* A request that fails aborts its transaction, which reverts the key
\* generator and the store.
AddToReceipts(store, keyGen, rec) ==
    IF ViolatesUniqueIndex(store, rec)
    THEN [ok |-> FALSE, store |-> store, keyGen |-> keyGen, key |-> 0]
    ELSE [ok |-> TRUE,
          store |-> Append(store, [rec EXCEPT !.id = NextKey(keyGen)]),
          keyGen |-> NextKey(keyGen), key |-> NextKey(keyGen)]

\* a put under the last key instead of an add
PutToExpenses(store, keyGen, rec) ==
    IF store = <<>>
    THEN [ok |-> TRUE, store |-> <<[rec EXCEPT !.id = NextKey(keyGen)]>>,
          keyGen |-> NextKey(keyGen), key |-> NextKey(keyGen)]
    ELSE [ok |-> TRUE,
          store |-> [store EXCEPT ![Len(store)] = [rec EXCEPT !.id = keyGen]],
          keyGen |-> keyGen, key |-> keyGen]

\* db.add on the autoIncrement store 'expenses' (no index)
AddToExpenses(store, keyGen, rec) ==
    [ok |-> TRUE,
     store |-> Append(store, [rec EXCEPT !.id = NextKey(keyGen)]),
     keyGen |-> NextKey(keyGen), key |-> NextKey(keyGen)]

\* a get that finds no record
GetNothing(store, keyPath, key) == {}

\* db.get(storeName, key) on a store whose key path is keyPath
Get(store, keyPath, key) == { r \in store : r[keyPath] = key }

\* a put that adds the record and keeps the one stored under its key
PutNoReplace(store, keyPath, rec) == store \cup {rec}

\* db.put(storeName, rec): insert or replace by the record's key
Put(store, keyPath, rec) == { r \in store : r[keyPath] # rec[keyPath] } \cup {rec}

\* ------------------------------------------------------- NewReceiptPage
IdleSubmit == [pc |-> "idle", db |-> 0, newReceipt |-> {}, key |-> 0, error |-> "",
               fetched |-> FALSE]

\* the page is mounted: useState(0) and the effect calls fetchLastReceipt,
\* which runs getAllReceipts up to `await getDB()`
OpenForm(f) ==
    /\ \A g \in Forms : ~form[g].mounted
    /\ fetchLastReceipt[f].pc # "awaitDB"
    /\ onSubmit[f].pc # "awaitDB"
    /\ getDB
    /\ form' = [form EXCEPT ![f] = [mounted |-> TRUE, receiptCount |-> 0]]
    /\ fetchLastReceipt' = [fetchLastReceipt EXCEPT ![f] = [pc |-> "awaitDB", db |-> dbPromise']]
    /\ onSubmit' = [onSubmit EXCEPT ![f] = IdleSubmit]
    /\ UNCHANGED <<diskVars, receipts, receiptsKeyGen, expenses, expensesKeyGen, settings, auth>>
    /\ UNCHANGED <<sessionVars, addLog, settingsVars, expenseVars>>

\* db.getAll('receipts') answers; setReceiptCount(receipts.length)
\* (a state update of an unmounted component has no effect)
FetchResolve(f) ==
    /\ fetchLastReceipt[f].pc = "awaitDB"
    /\ Fulfilled(fetchLastReceipt[f].db)
    /\ fetchLastReceipt' = [fetchLastReceipt EXCEPT ![f].pc = "done"]
    /\ form' = IF form[f].mounted
               THEN [form EXCEPT ![f].receiptCount = Len(receipts)]
               ELSE form
    /\ UNCHANGED <<sessionVars, storeVars, onSubmit, addLog, settingsVars, expenseVars>>

\* `await getDB()` of getAllReceipts throws: fetchLastReceipt is left by the
\* exception and the count stays as it is
FetchFails(f) ==
    /\ fetchLastReceipt[f].pc = "awaitDB"
    /\ Rejected(fetchLastReceipt[f].db)
    /\ fetchLastReceipt' = [fetchLastReceipt EXCEPT ![f].pc = "failed"]
    /\ UNCHANGED <<sessionVars, storeVars, form, onSubmit, addLog, settingsVars, expenseVars>>

\* onSubmit(data) up to `await addReceipt(newReceipt)`; the receipt number is
\* the one of the current render (fetched notes whether the fetch of the
\* form had answered)
Submit(f, data) ==
    /\ form[f].mounted
    /\ onSubmit[f].pc \in {"idle", "rejected"}
    /\ Len(receipts) < MaxReceipts
    /\ getDB
    /\ onSubmit' = [onSubmit EXCEPT ![f] =
          [pc |-> "awaitDB", db |-> dbPromise',
           newReceipt |-> {[id |-> 0,
                            receiptNumber |-> receiptNumber(form[f].receiptCount),
                            name |-> data.name, blockNumber |-> data.blockNumber,
                            amount |-> Number(data.amount), date |-> data.date,
                            forMonth |-> data.forMonth,
                            paymentMethod |-> data.paymentMethod]},
           key |-> 0, error |-> "",
           fetched |-> fetchLastReceipt[f].pc = "done"]]
    /\ UNCHANGED <<diskVars, receipts, receiptsKeyGen, expenses, expensesKeyGen, settings, auth>>
    /\ UNCHANGED <<sessionVars, form, fetchLastReceipt, addLog, settingsVars, expenseVars>>

\* an onSubmit that catches the rejection and navigates all the same
AfterAddReceiptSwallow(f, res) ==
    /\ onSubmit' = [onSubmit EXCEPT ![f].pc = IF res.ok THEN "navigated" ELSE "rejected",
                                     ![f].key = res.key,
                                     ![f].error = IF res.ok THEN "" ELSE "ConstraintError"]
    /\ form' = [form EXCEPT ![f].mounted = FALSE]

\* an onSubmit that reads the count again when its add is rejected
AfterAddReceiptRefresh(f, res) ==
    IF res.ok
    THEN /\ onSubmit' = [onSubmit EXCEPT ![f].pc = "navigated", ![f].key = res.key]
         /\ form' = [form EXCEPT ![f].mounted = FALSE]
    ELSE /\ onSubmit' = [onSubmit EXCEPT ![f].pc = "rejected",
                                          ![f].error = "ConstraintError"]
         /\ form' = [form EXCEPT ![f].receiptCount = Len(receipts)]

\* the rest of onSubmit once addReceipt has settled: a rejection leaves
\* onSubmit by the exception, a key is followed by navigate('/receipts')
AfterAddReceipt(f, res) ==
    IF res.ok
    THEN /\ onSubmit' = [onSubmit EXCEPT ![f].pc = "navigated", ![f].key = res.key]
         /\ form' = [form EXCEPT ![f].mounted = FALSE]
    ELSE /\ onSubmit' = [onSubmit EXCEPT ![f].pc = "rejected",
                                          ![f].error = "ConstraintError"]
         /\ form' = form

\* db.add('receipts', receipt) runs and onSubmit continues
AddReceipt(f) ==
    /\ onSubmit[f].pc = "awaitDB"
    /\ Fulfilled(onSubmit[f].db)
    /\ \E rec \in onSubmit[f].newReceipt :
         LET res == AddToReceipts(receipts, receiptsKeyGen, rec) IN
           /\ receipts' = res.store
           /\ receiptsKeyGen' = res.keyGen
           /\ addLog' = addLog \cup {rec.receiptNumber}
           /\ AfterAddReceipt(f, res)
    /\ UNCHANGED <<connVars, diskVars, expenses, expensesKeyGen, settings, auth>>
    /\ UNCHANGED <<sessionVars, fetchLastReceipt, settingsVars, expenseVars>>

\* `await getDB()` of addReceipt throws: onSubmit is left by the exception
\* before navigate('/receipts')
AddReceiptFails(f) ==
    /\ onSubmit[f].pc = "awaitDB"
    /\ Rejected(onSubmit[f].db)
    /\ onSubmit' = [onSubmit EXCEPT ![f].pc = "rejected",
                                     ![f].error = "StorageUnavailable"]
    /\ UNCHANGED <<sessionVars, storeVars, form, fetchLastReceipt, addLog, settingsVars,
                   expenseVars>>

\* Cancel, or a link of the sidebar: the page is unmounted
CloseForm(f) ==
    /\ form[f].mounted
    /\ form' = [form EXCEPT ![f].mounted = FALSE]
    /\ UNCHANGED <<sessionVars, storeVars, fetchLastReceipt, onSubmit, addLog, settingsVars, expenseVars>>

\* ------------------------------------------------------ SettingsProvider
\* a default without the typed text
blankSettings ==
    [adminName |-> "Admin", blockNumber |-> "Society Office",
     signatureType |-> "typed", typedSignature |-> "",
     drawnSignature |-> "", uploadedSignature |-> ""]

\* SettingsProvider.loadSettings: `const defaultSettings = ...`
defaultSettings ==
    [adminName |-> "Admin", blockNumber |-> "Society Office",
     signatureType |-> "typed", typedSignature |-> "For Neelkanth Society",
     drawnSignature |-> "", uploadedSignature |-> ""]

\* the record under a key of its own instead of the fixed one
WithNewId(s, id) ==
    [id |-> id + Cardinality(settings), adminName |-> s.adminName,
     blockNumber |-> s.blockNumber,
     signatureType |-> s.signatureType, typedSignature |-> s.typedSignature,
     drawnSignature |-> s.drawnSignature, uploadedSignature |-> s.uploadedSignature]

\* { ...settings, id: 1 }
WithId(s, id) ==
    [id |-> id, adminName |-> s.adminName, blockNumber |-> s.blockNumber,
     signatureType |-> s.signatureType, typedSignature |-> s.typedSignature,
     drawnSignature |-> s.drawnSignature, uploadedSignature |-> s.uploadedSignature]

\* the callers of loadSettings
MOUNT_EFFECT == 0
FILE_UPLOAD == -1
Loads == {MOUNT_EFFECT, FILE_UPLOAD} \cup Saves

IdleUpload == [pc |-> "idle", db |-> 0, settings |-> {}, uploadedSignature |-> ""]

\* what the form of the settings page registers
FormValues(s) ==
    [adminName |-> s.adminName, blockNumber |-> s.blockNumber,
     signatureType |-> s.signatureType, typedSignature |-> s.typedSignature]
\* useForm<Settings>() without default values
EmptyForm == [adminName |-> "", blockNumber |-> "", signatureType |-> "",
              typedSignature |-> ""]

\* the effect of SettingsPage on [settings]: the four values are set, and the
\* SignatureCanvas is rendered, with what was drawn, only for the type 'drawn'
SetValues(page, ctx) ==
    IF page.mounted /\ ctx # {}
    THEN LET cur == CHOOSE c \in ctx : TRUE IN
           [page EXCEPT !.form = FormValues(cur),
                        !.sigPad = IF cur.signatureType = "drawn" THEN page.sigPad ELSE {}]
    ELSE page

\* the rest of the caller once loadSettings has returned: onSubmit and
\* reader.onload alert and end, the mount effect has nothing left
LoadReturned(k) ==
    /\ loadSettings' = [loadSettings EXCEPT ![k] =
                          [pc |-> IF k = MOUNT_EFFECT THEN "done" ELSE "idle", db |-> 0]]
    /\ settingsSubmit' = [s \in Saves |-> IF s = k THEN [pc |-> "idle", db |-> 0,
                                                         settingsToSave |-> {},
                                                         padDrawn |-> FALSE,
                                                         typedEdited |-> FALSE]
                                          ELSE settingsSubmit[s]]
    /\ fileUpload' = IF k = FILE_UPLOAD THEN IdleUpload ELSE fileUpload

\* the mount effect calls loadSettings, which runs getSettings up to
\* `await getDB()`
StartLoadSettings ==
    /\ loadSettings[MOUNT_EFFECT].pc = "idle"
    /\ getDB
    /\ loadSettings' = [loadSettings EXCEPT ![MOUNT_EFFECT] =
                          [pc |-> "awaitGet", db |-> dbPromise']]
    /\ UNCHANGED <<diskVars, receipts, receiptsKeyGen, expenses, expensesKeyGen, settings, auth>>
    /\ UNCHANGED <<sessionVars, receiptVars, settingsCtx, settingsPage, settingsSubmit, expenseVars>>
    /\ UNCHANGED fileUpload

\* db.get('settings', 1) answers: the record is published, or saveSettings is
\* called with the default and runs up to `await getDB()`
LoadSettingsGet(k) ==
    /\ loadSettings[k].pc = "awaitGet"
    /\ Fulfilled(loadSettings[k].db)
    /\ LET currentSettings == Get(settings, "id", SETTINGS_KEY) IN
         IF currentSettings # {}
         THEN /\ settingsCtx' = currentSettings
              /\ settingsPage' = SetValues(settingsPage, currentSettings)
              /\ LoadReturned(k)
              /\ UNCHANGED connVars
         ELSE /\ getDB
              /\ loadSettings' = [loadSettings EXCEPT ![k] =
                                    [pc |-> "awaitPut", db |-> dbPromise']]
              /\ UNCHANGED <<settingsCtx, settingsPage, settingsSubmit, fileUpload>>
    /\ UNCHANGED <<diskVars, receipts, receiptsKeyGen, expenses, expensesKeyGen, settings, auth>>
    /\ UNCHANGED <<sessionVars, receiptVars, expenseVars>>

\* `await getDB()` of getSettings or saveSettings throws: loadSettings and
\* its caller are left by the exception, setSettings is not reached
LoadSettingsFails(k) ==
    /\ loadSettings[k].pc \in {"awaitGet", "awaitPut"}
    /\ Rejected(loadSettings[k].db)
    /\ loadSettings' = [loadSettings EXCEPT ![k] = [pc |-> "failed", db |-> 0]]
    /\ settingsSubmit' = [s \in Saves |-> IF s = k THEN [pc |-> "idle", db |-> 0,
                                                         settingsToSave |-> {},
                                                         padDrawn |-> FALSE,
                                                         typedEdited |-> FALSE]
                                          ELSE settingsSubmit[s]]
    /\ fileUpload' = IF k = FILE_UPLOAD THEN IdleUpload ELSE fileUpload
    /\ UNCHANGED <<sessionVars, storeVars, receiptVars, expenseVars, settingsCtx, settingsPage>>

\* db.put('settings', { ...defaultSettings, id: 1 }) runs;
\* setSettings({ ...defaultSettings, id: 1 })
LoadSettingsPut(k) ==
    /\ loadSettings[k].pc = "awaitPut"
    /\ Fulfilled(loadSettings[k].db)
    /\ settings' = Put(settings, "id", WithId(defaultSettings, SETTINGS_KEY))
    /\ settingsCtx' = {WithId(defaultSettings, 1)}
    /\ settingsPage' = SetValues(settingsPage, settingsCtx')
    /\ LoadReturned(k)
    /\ UNCHANGED <<connVars, diskVars, receipts, receiptsKeyGen, expenses, expensesKeyGen, auth>>
    /\ UNCHANGED <<sessionVars, receiptVars, expenseVars>>

\* ------------------------------------------------------------ SettingsPage
SignatureTypes == {"typed", "drawn", "uploaded"}
\* what the user types into the typed-signature input
TypedInputs == {"Secretary"}
\* sigPad.toDataURL('image/png') of what the user draws
DrawnImages == {"data:image/png;base64,iVBOR"}

IdleSave == [pc |-> "idle", db |-> 0, settingsToSave |-> {}, padDrawn |-> FALSE,
             typedEdited |-> FALSE]

\* the page is mounted once the application is: the form takes the values of
\* the settings of the context, if there are any, and the sigPad is empty
OpenSettings ==
    /\ ~settingsPage.mounted
    /\ loadSettings[MOUNT_EFFECT].pc # "idle"
    /\ settingsPage' = SetValues([mounted |-> TRUE, form |-> EmptyForm, sigPad |-> {}],
                                 settingsCtx)
    /\ UNCHANGED <<sessionVars, storeVars, receiptVars, expenseVars>>
    /\ UNCHANGED <<settingsCtx, loadSettings, settingsSubmit, fileUpload>>

\* a link of the sidebar: the page is unmounted
CloseSettings ==
    /\ settingsPage.mounted
    /\ settingsPage' = [mounted |-> FALSE, form |-> EmptyForm, sigPad |-> {}]
    /\ UNCHANGED <<sessionVars, storeVars, receiptVars, expenseVars>>
    /\ UNCHANGED <<settingsCtx, loadSettings, settingsSubmit, fileUpload>>

\* the form is rendered: `if (!settings) return <div>Loading...</div>`
FormRendered == settingsPage.mounted /\ settingsCtx # {}

\* the select of the signature type; the SignatureCanvas of another type than
\* 'drawn' is unmounted
SelectSignatureType(type) ==
    /\ FormRendered
    /\ settingsPage.form.signatureType # type
    /\ settingsPage' = [settingsPage EXCEPT !.form.signatureType = type, !.sigPad = {}]
    /\ UNCHANGED <<sessionVars, storeVars, receiptVars, expenseVars>>
    /\ UNCHANGED <<settingsCtx, loadSettings, settingsSubmit, fileUpload>>

\* the input of the typed signature, rendered for the type 'typed'
TypeSignature(text) ==
    /\ FormRendered
    /\ settingsPage.form.signatureType = "typed"
    /\ settingsPage.form.typedSignature # text
    /\ settingsPage' = [settingsPage EXCEPT !.form.typedSignature = text]
    /\ UNCHANGED <<sessionVars, storeVars, receiptVars, expenseVars>>
    /\ UNCHANGED <<settingsCtx, loadSettings, settingsSubmit, fileUpload>>

\* the user draws on the SignatureCanvas, rendered for the type 'drawn'
DrawSignature(image) ==
    /\ FormRendered
    /\ settingsPage.form.signatureType = "drawn"
    /\ settingsPage.sigPad # {image}
    /\ settingsPage' = [settingsPage EXCEPT !.sigPad = {image}]
    /\ UNCHANGED <<sessionVars, storeVars, receiptVars, expenseVars>>
    /\ UNCHANGED <<settingsCtx, loadSettings, settingsSubmit, fileUpload>>

\* the Clear button: sigPad.current?.clear()
ClearSignature ==
    /\ FormRendered
    /\ settingsPage.sigPad # {}
    /\ settingsPage' = [settingsPage EXCEPT !.sigPad = {}]
    /\ UNCHANGED <<sessionVars, storeVars, receiptVars, expenseVars>>
    /\ UNCHANGED <<settingsCtx, loadSettings, settingsSubmit, fileUpload>>

\* { ...data, drawnSignature, uploadedSignature }: the drawing of the sigPad
\* when there is one, otherwise the drawn signature of the context, and the
\* uploaded signature of the context
SettingsToSave(data, sigPad, ctx) ==
    LET cur == CHOOSE c \in ctx : TRUE IN
      [adminName |-> data.adminName, blockNumber |-> data.blockNumber,
       signatureType |-> data.signatureType, typedSignature |-> data.typedSignature,
       drawnSignature |-> IF sigPad # {} THEN CHOOSE image \in sigPad : TRUE
                          ELSE cur.drawnSignature,
       uploadedSignature |-> cur.uploadedSignature]

\* onSubmit(data) up to `await saveSettings(settingsToSave)`, which runs up to
\* `await getDB()`; a call takes the first record that is not in flight
\* (padDrawn notes whether the sigPad held a drawing, typedEdited whether the
\* typed signature of the form is another than the one of the context)
SubmitSettings(s) ==
    /\ FormRendered
    /\ settingsSubmit[s].pc = "idle"
    /\ \A k \in Saves : k < s => settingsSubmit[k].pc # "idle"
    /\ getDB
    /\ settingsSubmit' = [settingsSubmit EXCEPT ![s] =
          [pc |-> "awaitPut", db |-> dbPromise',
           settingsToSave |-> {SettingsToSave(settingsPage.form, settingsPage.sigPad,
                                              settingsCtx)},
           padDrawn |-> settingsPage.sigPad # {},
           typedEdited |-> \E cur \in settingsCtx :
                              settingsPage.form.typedSignature # cur.typedSignature]]
    /\ UNCHANGED <<diskVars, receipts, receiptsKeyGen, expenses, expensesKeyGen, settings, auth>>
    /\ UNCHANGED <<sessionVars, receiptVars, expenseVars>>
    /\ UNCHANGED <<settingsCtx, loadSettings, settingsPage, fileUpload>>

\* db.put('settings', { ...settingsToSave, id: 1 }) runs; onSubmit calls
\* loadSettings, which runs getSettings up to `await getDB()`
SaveSettingsPut(s) ==
    /\ settingsSubmit[s].pc = "awaitPut"
    /\ Fulfilled(settingsSubmit[s].db)
    /\ \E settingsToSave \in settingsSubmit[s].settingsToSave :
          settings' = Put(settings, "id", WithId(settingsToSave, SETTINGS_KEY))
    /\ getDB
    /\ settingsSubmit' = [settingsSubmit EXCEPT ![s].pc = "awaitLoad", ![s].db = 0]
    /\ loadSettings' = [loadSettings EXCEPT ![s] = [pc |-> "awaitGet", db |-> dbPromise']]
    /\ UNCHANGED <<diskVars, receipts, receiptsKeyGen, expenses, expensesKeyGen, auth>>
    /\ UNCHANGED <<sessionVars, receiptVars, expenseVars>>
    /\ UNCHANGED <<settingsCtx, settingsPage, fileUpload>>

\* event.target.result of the file the user picks
UploadedImages == {"data:image/png;base64,UPLD"}

\* handleFileUpload(e) on the file input, rendered for the type 'uploaded':
\* reader.readAsDataURL(file); the onload handler holds the settings of
\* this render
StartUpload(image) ==
    /\ FormRendered
    /\ settingsPage.form.signatureType = "uploaded"
    /\ fileUpload.pc = "idle"
    /\ fileUpload' = [pc |-> "reading", db |-> 0, settings |-> settingsCtx,
                      uploadedSignature |-> image]
    /\ UNCHANGED <<sessionVars, storeVars, receiptVars, expenseVars>>
    /\ UNCHANGED <<settingsCtx, loadSettings, settingsPage, settingsSubmit>>

\* reader.onload: saveSettings({ ...settings, uploadedSignature }) runs up
\* to `await getDB()`
FileRead ==
    /\ fileUpload.pc = "reading"
    /\ getDB
    /\ fileUpload' = [fileUpload EXCEPT !.pc = "awaitPut", !.db = dbPromise']
    /\ UNCHANGED <<diskVars, receipts, receiptsKeyGen, expenses, expensesKeyGen, settings, auth>>
    /\ UNCHANGED <<sessionVars, receiptVars, expenseVars>>
    /\ UNCHANGED <<settingsCtx, loadSettings, settingsPage, settingsSubmit>>

\* db.put('settings', { ...settingsToSave, id: 1 }) runs; the handler calls
\* loadSettings, which runs getSettings up to `await getDB()`
UploadPut ==
    /\ fileUpload.pc = "awaitPut"
    /\ Fulfilled(fileUpload.db)
    /\ \E cur \in fileUpload.settings :
          settings' = Put(settings, "id",
                          WithId([cur EXCEPT !.uploadedSignature =
                                     fileUpload.uploadedSignature], SETTINGS_KEY))
    /\ getDB
    /\ fileUpload' = [fileUpload EXCEPT !.pc = "awaitLoad", !.db = 0]
    /\ loadSettings' = [loadSettings EXCEPT ![FILE_UPLOAD] =
                          [pc |-> "awaitGet", db |-> dbPromise']]
    /\ UNCHANGED <<diskVars, receipts, receiptsKeyGen, expenses, expensesKeyGen, auth>>
    /\ UNCHANGED <<sessionVars, receiptVars, expenseVars>>
    /\ UNCHANGED <<settingsCtx, settingsPage, settingsSubmit>>

\* ------------------------------------------------------------ ExpensesPage
ExpenseDates == {"2024-01-01", "2024-02-01"}
\* new Date(date).getTime(), in days since 2024-01-01
DateTime(d) == CASE d = "2024-01-01" -> 0 [] d = "2024-02-01" -> 31

ExpenseFormData ==
    { [date |-> d, description |-> "x", amount |-> "250"] : d \in ExpenseDates }

\* what the user enters into the amount input of the expenses page
ExpenseAmounts == {"250", "500"}

RECURSIVE InsertByDateDesc(_, _)
InsertByDateDesc(sorted, e) ==
    IF sorted = <<>> THEN <<e>>
    ELSE IF DateTime(Head(sorted).date) >= DateTime(e.date)
         THEN <<Head(sorted)>> \o InsertByDateDesc(Tail(sorted), e)
         ELSE <<e>> \o sorted

RECURSIVE SortByDateDesc(_)
\* data.sort((a, b) => new Date(b.date).getTime() - new Date(a.date).getTime())
\* (Array.prototype.sort is stable)
SortByDateDesc(data) ==
    IF data = <<>> THEN <<>>
    ELSE LET n == Len(data) IN
         InsertByDateDesc(SortByDateDesc(SubSeq(data, 1, n - 1)), data[n])

\* the page is mounted: mode 'add', no expenses, and the effect calls
\* loadExpenses, which runs getAllExpenses up to `await getDB()`
OpenExpenses ==
    /\ ~expensesPage.mounted
    /\ expenseSubmit.pc = "idle"
    /\ Len(loadExpenses) < MaxLoads
    /\ getDB
    /\ expensesPage' = [mounted |-> TRUE, mode |-> "add", expenses |-> <<>>]
    /\ loadExpenses' = Append(loadExpenses, dbPromise')
    /\ UNCHANGED <<diskVars, receipts, receiptsKeyGen, expenses, expensesKeyGen, settings, auth>>
    /\ UNCHANGED <<sessionVars, receiptVars, settingsVars, expenseSubmit, exportVars>>

CloseExpenses ==
    /\ expensesPage.mounted
    /\ expensesPage' = [expensesPage EXCEPT !.mounted = FALSE]
    /\ UNCHANGED <<sessionVars, storeVars, receiptVars, settingsVars, expenseSubmit, loadExpenses>>
    /\ UNCHANGED exportVars

\* the Income (+) and Expense (-) buttons
SetMode(m) ==
    /\ expensesPage.mounted
    /\ expensesPage.mode # m
    /\ expensesPage' = [expensesPage EXCEPT !.mode = m]
    /\ UNCHANGED <<sessionVars, storeVars, receiptVars, settingsVars, expenseSubmit, loadExpenses>>
    /\ UNCHANGED exportVars

\* the amount without the sign of the mode
amountUnsigned(mode, data) == Number(data.amount)

\* const amount = mode === 'add' ? Number(data.amount) : -Number(data.amount)
amount(mode, data) ==
    IF mode = "add" THEN Number(data.amount) ELSE -Number(data.amount)

\* onSubmit(data) up to `await addExpense({ ...data, amount })`
SubmitExpense(data) ==
    /\ expensesPage.mounted
    /\ expenseSubmit.pc = "idle"
    /\ Len(expenses) < MaxExpenses
    /\ getDB
    /\ expenseSubmit' = [pc |-> "awaitDB", db |-> dbPromise',
                         expense |-> {[id |-> 0, date |-> data.date,
                                       description |-> data.description,
                                       amount |-> amount(expensesPage.mode, data)]},
                         key |-> 0]
    /\ UNCHANGED <<diskVars, receipts, receiptsKeyGen, expenses, expensesKeyGen, settings, auth>>
    /\ UNCHANGED <<sessionVars, receiptVars, settingsVars, expensesPage, loadExpenses>>
    /\ UNCHANGED exportVars

\* db.add('expenses', expense) runs; onSubmit resets the form and calls
\* loadExpenses, which runs up to `await getDB()`
AddExpense ==
    /\ expenseSubmit.pc = "awaitDB"
    /\ Fulfilled(expenseSubmit.db)
    /\ Len(loadExpenses) < MaxLoads
    /\ \E rec \in expenseSubmit.expense :
         LET res == AddToExpenses(expenses, expensesKeyGen, rec) IN
           /\ expenses' = res.store
           /\ expensesKeyGen' = res.keyGen
           /\ expenseSubmit' = [pc |-> "idle", db |-> 0, expense |-> {}, key |-> res.key]
    /\ getDB
    /\ loadExpenses' = Append(loadExpenses, dbPromise')
    /\ UNCHANGED <<diskVars, receipts, receiptsKeyGen, settings, auth>>
    /\ UNCHANGED <<sessionVars, receiptVars, settingsVars, expensesPage, exportVars>>

\* db.getAll('expenses') answers a loadExpenses call; setExpenses(sorted)
LoadExpensesResolve(i) ==
    /\ i \in DOMAIN loadExpenses
    /\ Fulfilled(loadExpenses[i])
    /\ loadExpenses' = SubSeq(loadExpenses, 1, i - 1)
                         \o SubSeq(loadExpenses, i + 1, Len(loadExpenses))
    /\ expensesPage' = IF expensesPage.mounted
                       THEN [expensesPage EXCEPT !.expenses = SortByDateDesc(expenses)]
                       ELSE expensesPage
    /\ UNCHANGED <<sessionVars, storeVars, receiptVars, settingsVars, expenseSubmit>>
    /\ UNCHANGED exportVars

RECURSIVE reduce(_, _)
\* list.reduce((sum, e) => sum + e, 0)
reduce(list, sum) ==
    IF list = <<>> THEN sum ELSE reduce(Tail(list), sum + Head(list))

\* the amounts of the list that pass the filter
FilterAmounts(list, positive) ==
    SelectSeq([i \in DOMAIN list |-> list[i].amount],
              LAMBDA a : IF positive THEN a > 0 ELSE a < 0)

abs(x) == IF x < 0 THEN -x ELSE x

\* const totalExpenses = expenses.reduce((sum, e) => sum + e.amount, 0): the
\* net balance the page shows
totalExpenses == reduce([i \in DOMAIN expensesPage.expenses |->
                           expensesPage.expenses[i].amount], 0)

\* expenses.filter(e => e.amount > 0).reduce((sum, e) => sum + e.amount, 0)
totalIncome(list) == reduce(FilterAmounts(list, TRUE), 0)

\* the outlays summed with their sign
totalExpenseSigned(list) == reduce(FilterAmounts(list, FALSE), 0)

\* expenses.filter(e => e.amount < 0)
\*         .reduce((sum, e) => sum + Math.abs(e.amount), 0)
totalExpense(list) ==
    LET outlays == FilterAmounts(list, FALSE) IN
      reduce([i \in DOMAIN outlays |-> abs(outlays[i])], 0)

\* ------------------------------------------------------------ exports
\* window.jspdf: undefined, an object without the property `plugin`, an object
\* whose `plugin` has no `autotable`, or one whose `plugin.autotable` is set
JspdfGlobals == {"undefined", "noPlugin", "noAutotable", "autotable"}
Libraries == [jspdf : JspdfGlobals, html2canvas : BOOLEAN, XLSX : BOOLEAN]
AllLoaded == [jspdf |-> "autotable", html2canvas |-> TRUE, XLSX |-> TRUE]

NoCall == [op |-> "", alert |-> {}, saved |-> {}, thrown |-> {}, canvas |-> {}]
Alerted(op, message) == [NoCall EXCEPT !.op = op, !.alert = {message}]
Saved(op, file) == [NoCall EXCEPT !.op = op, !.saved = {file}]
Thrown(op, error) == [NoCall EXCEPT !.op = op, !.thrown = {error}]

\* if (!window.jspdf || !window.jspdf.plugin.autotable) { alert(...); return; }
\* and, behind it, the document saved as file; without `plugin` the second
\* operand reads a property of undefined, which throws a TypeError
AutotableTest(op, file) ==
    CASE window.jspdf = "undefined" -> Alerted(op, "PDF generation library is not loaded.")
      [] window.jspdf = "noPlugin" -> Thrown(op, "TypeError")
      [] window.jspdf = "noAutotable" ->
            Alerted(op, "PDF generation library is not loaded.")
      [] window.jspdf = "autotable" -> Saved(op, file)

\* the Export PDF button of the expenses page: exportExpensesToPdf(expenses, t)
\* writes the rows of the list of the page and the three totals, and saves
\* the document
ExportExpenses ==
    /\ expensesPage.mounted
    /\ exportCall' = AutotableTest("exportExpensesToPdf", "Expense_Report.pdf")
    /\ LET list == expensesPage.expenses IN
         savedReport' =
           IF exportCall'.saved # {}
           THEN {[body |-> [i \in DOMAIN list |-> list[i].amount],
                  totalIncome |-> totalIncome(list),
                  totalExpense |-> totalExpense(list),
                  netBalance |-> totalIncome(list) - totalExpense(list)]}
           ELSE savedReport
    /\ <<exportCall', savedReport'>> # <<exportCall, savedReport>>
    /\ UNCHANGED <<sessionVars, storeVars, receiptVars, settingsVars>>
    /\ UNCHANGED <<expensesPage, expenseSubmit, loadExpenses, window>>

\* the PDF button of the receipts list: exportReceiptsToPdf(filteredReceipts, t)
ExportReceiptsPdf ==
    /\ exportCall' = AutotableTest("exportReceiptsToPdf", "All_Receipts.pdf")
    /\ exportCall' # exportCall
    /\ UNCHANGED <<sessionVars, storeVars, receiptVars, settingsVars>>
    /\ UNCHANGED <<expensesPage, expenseSubmit, loadExpenses, window, savedReport>>

\* the Excel button of the receipts list:
\* exportReceiptsToExcel(filteredReceipts, t)
ExportReceiptsExcel ==
    /\ exportCall' = IF ~window.XLSX
                     THEN Alerted("exportReceiptsToExcel",
                                  "Excel generation library is not loaded.")
                     ELSE Saved("exportReceiptsToExcel", "All_Receipts.xlsx")
    /\ exportCall' # exportCall
    /\ UNCHANGED <<sessionVars, storeVars, receiptVars, settingsVars>>
    /\ UNCHANGED <<expensesPage, expenseSubmit, loadExpenses, window, savedReport>>

\* the PDF button of the modal of a receipt, which holds the element
\* 'receipt-template': generateReceiptPdf(receipt, settings, t) up to the
\* promise of html2canvas
GenerateReceiptPdf(receipt) ==
    /\ exportCall' = IF window.html2canvas /\ window.jspdf # "undefined"
                     THEN [NoCall EXCEPT !.op = "generateReceiptPdf",
                                         !.canvas = {receipt.receiptNumber}]
                     ELSE Alerted("generateReceiptPdf",
                                  "PDF generation library is not loaded.")
    /\ exportCall' # exportCall
    /\ UNCHANGED <<sessionVars, storeVars, receiptVars, settingsVars>>
    /\ UNCHANGED <<expensesPage, expenseSubmit, loadExpenses, window, savedReport>>

\* html2canvas has drawn the canvas: pdf.save(`Receipt-${receiptNumber}.pdf`)
CanvasDrawn ==
    /\ \E n \in exportCall.canvas :
          exportCall' = Saved("generateReceiptPdf", "Receipt-" \o n \o ".pdf")
    /\ UNCHANGED <<sessionVars, storeVars, receiptVars, settingsVars>>
    /\ UNCHANGED <<expensesPage, expenseSubmit, loadExpenses, window, savedReport>>

\* ------------------------------------------------------------ AuthProvider
Users == {"admin", "guest"}
Passwords == {"google", "s3cret"}

\* sha256(message): lowercase hexadecimal SHA-256 digest of the message
sha256(message) ==
    CASE message = "google" ->
           "bbdefa2950f49882f295b1285d4fa9dec45fc4144bfb07ee6acc68762d12c2e3"
      [] message = "s3cret" ->
           "1ec1c26b50d5d3c58d9583181af8076655fe00756bf7285940ba3670f99fcba0"

\* a call of login: its position, its arguments and locals, and, once it has
\* returned, its result; the locals are gone when the call has returned
IdleLogin == [pc |-> "idle", db |-> 0, user |-> "", pass |-> "",
              credentials |-> {}, result |-> FALSE]
LoginReturned(user, result) ==
    [pc |-> "done", db |-> 0, user |-> user, pass |-> "",
     credentials |-> {}, result |-> result]

\* the onSubmit of the ChangePasswordForm: its position, its arguments and
\* locals (gone when it has returned), and the message state of the form
IdleChange == [pc |-> "idle", db |-> 0, currentPassword |-> "", newPassword |-> "",
               credentials |-> {}, message |-> ""]
ChangeReturned(message) ==
    [pc |-> "done", db |-> 0, currentPassword |-> "", newPassword |-> "",
     credentials |-> {}, message |-> message]

\* the page has been mounted: the mount effect has run at least once
AppMounted == \E s \in Startups : checkAuth[s].pc # "idle"

\* checkAuth() up to `await getAuthCredentials('admin')`: the session flag is
\* restored and getAuthCredentials runs up to `await getDB()`; the runs are
\* numbered in the order they start
CheckAuthStart(s) ==
    /\ checkAuth[s].pc = "idle"
    /\ \A t \in Startups : t < s => checkAuth[t].pc # "idle"
    /\ isAuthenticated' = IF sessionStorage = {"true"} THEN TRUE ELSE isAuthenticated
    /\ getDB
    /\ checkAuth' = [checkAuth EXCEPT ![s] = [pc |-> "awaitGet", db |-> dbPromise']]
    /\ UNCHANGED <<diskVars, receipts, receiptsKeyGen, expenses, expensesKeyGen, settings, auth>>
    /\ UNCHANGED <<receiptVars, settingsVars, expenseVars, sessionStorage, login, changePassword>>

\* db.get('auth', 'admin') answers; without credentials sha256('google') is
\* awaited
CheckAuthGet(s) ==
    /\ checkAuth[s].pc = "awaitGet"
    /\ Fulfilled(checkAuth[s].db)
    /\ checkAuth' = [checkAuth EXCEPT ![s].pc =
                       IF Get(auth, "username", "admin") = {} THEN "awaitHash" ELSE "done"]
    /\ UNCHANGED <<storeVars, receiptVars, settingsVars, expenseVars>>
    /\ UNCHANGED <<isAuthenticated, sessionStorage, login, changePassword>>

\* the digest is ready; saveAuthCredentials runs up to `await getDB()`
CheckAuthHash(s) ==
    /\ checkAuth[s].pc = "awaitHash"
    /\ getDB
    /\ checkAuth' = [checkAuth EXCEPT ![s] = [pc |-> "awaitPut", db |-> dbPromise']]
    /\ UNCHANGED <<diskVars, receipts, receiptsKeyGen, expenses, expensesKeyGen, settings, auth>>
    /\ UNCHANGED <<receiptVars, settingsVars, expenseVars>>
    /\ UNCHANGED <<isAuthenticated, sessionStorage, login, changePassword>>

\* db.put('auth', { username: 'admin', passwordHash: sha256('google') }) runs
CheckAuthPut(s) ==
    /\ checkAuth[s].pc = "awaitPut"
    /\ Fulfilled(checkAuth[s].db)
    /\ auth' = Put(auth, "username",
                   [username |-> "admin", passwordHash |-> sha256("google")])
    /\ checkAuth' = [checkAuth EXCEPT ![s].pc = "done"]
    /\ UNCHANGED <<connVars, diskVars, receipts, receiptsKeyGen, expenses, expensesKeyGen, settings>>
    /\ UNCHANGED <<receiptVars, settingsVars, expenseVars>>
    /\ UNCHANGED <<isAuthenticated, sessionStorage, login, changePassword>>

\* login(user, pass) up to its first await: another user returns false at
\* once, 'admin' runs getAuthCredentials up to `await getDB()`; a call takes
\* the first record that is not in flight
LoginStart(l, user, pass) ==
    /\ AppMounted
    /\ login[l].pc \in {"idle", "done"}
    /\ \A k \in Logins : k < l => login[k].pc \in {"awaitGet", "awaitHash"}
    /\ IF user = "admin"
       THEN /\ getDB
            /\ login' = [login EXCEPT ![l] =
                  [pc |-> "awaitGet", db |-> dbPromise', user |-> user, pass |-> pass,
                   credentials |-> {}, result |-> FALSE]]
       ELSE /\ login' = [login EXCEPT ![l] = LoginReturned(user, FALSE)]
            /\ UNCHANGED connVars
    /\ UNCHANGED <<diskVars, receipts, receiptsKeyGen, expenses, expensesKeyGen, settings, auth>>
    /\ UNCHANGED <<receiptVars, settingsVars, expenseVars>>
    /\ UNCHANGED <<isAuthenticated, sessionStorage, checkAuth, changePassword>>

\* db.get('auth', 'admin') answers; with credentials sha256(pass) is awaited,
\* without them login returns false
LoginGet(l) ==
    /\ login[l].pc = "awaitGet"
    /\ Fulfilled(login[l].db)
    /\ LET credentials == Get(auth, "username", "admin") IN
         login' = IF credentials # {}
                  THEN [login EXCEPT ![l].credentials = credentials,
                                     ![l].pc = "awaitHash"]
                  ELSE [login EXCEPT ![l] = LoginReturned(login[l].user, FALSE)]
    /\ UNCHANGED <<storeVars, receiptVars, settingsVars, expenseVars>>
    /\ UNCHANGED <<isAuthenticated, sessionStorage, checkAuth, changePassword>>

\* the comparison of the digests left out
PasswordNotCompared(pass, credentials) == credentials # {}

\* passHash === credentials.passwordHash
PasswordMatches(pass, credentials) ==
    \E c \in credentials : sha256(pass) = c.passwordHash

\* the digest is ready: on a match the flag and the session item are set and
\* login returns true, otherwise it returns false
LoginHash(l) ==
    /\ login[l].pc = "awaitHash"
    /\ IF PasswordMatches(login[l].pass, login[l].credentials)
       THEN /\ isAuthenticated' = TRUE
            /\ sessionStorage' = {"true"}
            /\ login' = [login EXCEPT ![l] = LoginReturned(login[l].user, TRUE)]
       ELSE /\ login' = [login EXCEPT ![l] = LoginReturned(login[l].user, FALSE)]
            /\ UNCHANGED <<isAuthenticated, sessionStorage>>
    /\ UNCHANGED <<storeVars, receiptVars, settingsVars, expenseVars>>
    /\ UNCHANGED <<checkAuth, changePassword>>

\* the element of the route: the five pages are children of ProtectedRoute
Paths == {"/login", "/", "/receipts", "/new-receipt", "/expenses", "/settings"}
ProtectedPages == {"DashboardPage", "ReceiptsListPage", "NewReceiptPage",
                   "ExpensesPage", "SettingsPage"}

\* a route that renders its children whatever the flag
ProtectedRouteOpen(children) == children

\* ProtectedRoute: <Navigate to="/login"> unless isAuthenticated
ProtectedRoute(children) ==
    IF ~isAuthenticated THEN "Navigate" ELSE children

\* <Routes> of App: what is rendered for a path
Routes(path) ==
    CASE path = "/login" -> "LoginPage"
      [] path = "/" -> ProtectedRoute("DashboardPage")
      [] path = "/receipts" -> ProtectedRoute("ReceiptsListPage")
      [] path = "/new-receipt" -> ProtectedRoute("NewReceiptPage")
      [] path = "/expenses" -> ProtectedRoute("ExpensesPage")
      [] path = "/settings" -> ProtectedRoute("SettingsPage")

\* logout(), from the sidebar of a protected page
Logout ==
    /\ isAuthenticated
    /\ isAuthenticated' = FALSE
    /\ sessionStorage' = {}
    /\ UNCHANGED <<storeVars, receiptVars, settingsVars, expenseVars>>
    /\ UNCHANGED <<checkAuth, login, changePassword>>

\* ------------------------------------------------------ ChangePasswordForm
\* onSubmit(data) up to `await getAuthCredentials('admin')`: the message is
\* cleared; the form is on the settings page, which is a protected page
ChangePasswordStart(c, currentPassword, newPassword) ==
    /\ isAuthenticated
    /\ changePassword[c].pc \in {"idle", "done"}
    /\ getDB
    /\ changePassword' = [changePassword EXCEPT ![c] =
          [pc |-> "awaitGet", db |-> dbPromise', currentPassword |-> currentPassword,
           newPassword |-> newPassword, credentials |-> {}, message |-> ""]]
    /\ UNCHANGED <<diskVars, receipts, receiptsKeyGen, expenses, expensesKeyGen, settings, auth>>
    /\ UNCHANGED <<receiptVars, settingsVars, expenseVars>>
    /\ UNCHANGED <<isAuthenticated, sessionStorage, checkAuth, login>>

\* db.get('auth', 'admin') answers; with credentials sha256(currentPassword)
\* is awaited, without them onSubmit ends
ChangePasswordGet(c) ==
    /\ changePassword[c].pc = "awaitGet"
    /\ Fulfilled(changePassword[c].db)
    /\ LET credentials == Get(auth, "username", "admin") IN
         changePassword' =
            IF credentials # {}
            THEN [changePassword EXCEPT ![c].credentials = credentials,
                                        ![c].pc = "awaitHashCurrent"]
            ELSE [changePassword EXCEPT ![c] = ChangeReturned(changePassword[c].message)]
    /\ UNCHANGED <<storeVars, receiptVars, settingsVars, expenseVars>>
    /\ UNCHANGED <<isAuthenticated, sessionStorage, checkAuth, login>>

\* the `return` after the error message left out
ChangePasswordHashCurrentNoReturn(c) ==
    /\ changePassword[c].pc = "awaitHashCurrent"
    /\ changePassword' =
         IF PasswordMatches(changePassword[c].currentPassword, changePassword[c].credentials)
         THEN [changePassword EXCEPT ![c].pc = "awaitHashNew"]
         ELSE [changePassword EXCEPT ![c].pc = "awaitHashNew", ![c].message = "error"]
    /\ UNCHANGED <<storeVars, receiptVars, settingsVars, expenseVars>>
    /\ UNCHANGED <<isAuthenticated, sessionStorage, checkAuth, login>>

\* the digest of the current password is ready: a mismatch sets the error
\* message and returns, a match awaits sha256(newPassword)
ChangePasswordHashCurrent(c) ==
    /\ changePassword[c].pc = "awaitHashCurrent"
    /\ changePassword' =
         IF PasswordMatches(changePassword[c].currentPassword, changePassword[c].credentials)
         THEN [changePassword EXCEPT ![c].pc = "awaitHashNew"]
         ELSE [changePassword EXCEPT ![c] = ChangeReturned("error")]
    /\ UNCHANGED <<storeVars, receiptVars, settingsVars, expenseVars>>
    /\ UNCHANGED <<isAuthenticated, sessionStorage, checkAuth, login>>

\* the digest of the new password is ready; saveAuthCredentials runs up to
\* `await getDB()`
ChangePasswordHashNew(c) ==
    /\ changePassword[c].pc = "awaitHashNew"
    /\ getDB
    /\ changePassword' = [changePassword EXCEPT ![c].pc = "awaitPut", ![c].db = dbPromise']
    /\ UNCHANGED <<diskVars, receipts, receiptsKeyGen, expenses, expensesKeyGen, settings, auth>>
    /\ UNCHANGED <<receiptVars, settingsVars, expenseVars>>
    /\ UNCHANGED <<isAuthenticated, sessionStorage, checkAuth, login>>

\* db.put('auth', { username: 'admin', passwordHash: newPassHash }) runs; the
\* success message is set
ChangePasswordPut(c) ==
    /\ changePassword[c].pc = "awaitPut"
    /\ Fulfilled(changePassword[c].db)
    /\ auth' = Put(auth, "username",
                   [username |-> "admin",
                    passwordHash |-> sha256(changePassword[c].newPassword)])
    /\ changePassword' = [changePassword EXCEPT ![c] = ChangeReturned("success")]
    /\ UNCHANGED <<connVars, diskVars, receipts, receiptsKeyGen, expenses, expensesKeyGen, settings>>
    /\ UNCHANGED <<receiptVars, settingsVars, expenseVars>>
    /\ UNCHANGED <<isAuthenticated, sessionStorage, checkAuth, login>>

\* ------------------------------------------------------- specifications
\* no database of the site is on disk
NoDatabase ==
    /\ upgradeCalls = 0
    /\ dbVersion = 0
    /\ objectStoreNames = {}
    /\ objectStores = {}
    /\ receipts = <<>>
    /\ receiptsKeyGen = 0
    /\ expenses = <<>>
    /\ expensesKeyGen = 0
    /\ settings = {}
    /\ auth = {}

\* the database an earlier visit has left on disk: the default settings and
\* credential, and one receipt
Stored ==
    /\ upgradeCalls = 0
    /\ dbVersion = DB_VERSION
    /\ objectStoreNames = {"receipts", "expenses", "settings", "auth"}
    /\ objectStores = createMissing({})
    /\ receipts = <<[id |-> 1, receiptNumber |-> receiptNumber(0), name |-> "A",
                     blockNumber |-> "12", amount |-> 500, date |-> "2024-01-01",
                     forMonth |-> "2024-01", paymentMethod |-> "Cash"]>>
    /\ receiptsKeyGen = 1
    /\ expenses = <<>>
    /\ expensesKeyGen = 0
    /\ settings = {WithId(defaultSettings, SETTINGS_KEY)}
    /\ auth = {[username |-> "admin", passwordHash |-> sha256("google")]}

\* the module is loaded and nothing has run: no connection; item is the
\* session item 'isAuthenticated' of the tab and libraries the globals of
\* the export libraries
Started(item, libraries) ==
    /\ dbPromise = 0
    /\ promises = <<>>
    /\ form = [f \in Forms |-> [mounted |-> FALSE, receiptCount |-> 0]]
    /\ fetchLastReceipt = [f \in Forms |-> [pc |-> "idle", db |-> 0]]
    /\ onSubmit = [f \in Forms |-> IdleSubmit]
    /\ addLog = {}
    /\ settingsCtx = {}
    /\ loadSettings = [k \in Loads |-> [pc |-> "idle", db |-> 0]]
    /\ settingsPage = [mounted |-> FALSE, form |-> EmptyForm, sigPad |-> {}]
    /\ settingsSubmit = [s \in Saves |-> IdleSave]
    /\ fileUpload = IdleUpload
    /\ expensesPage = [mounted |-> FALSE, mode |-> "add", expenses |-> <<>>]
    /\ savedReport = {}
    /\ window = libraries
    /\ exportCall = NoCall
    /\ expenseSubmit = [pc |-> "idle", db |-> 0, expense |-> {}, key |-> 0]
    /\ loadExpenses = <<>>
    /\ isAuthenticated = FALSE
    /\ sessionStorage = item
    /\ checkAuth = [s \in Startups |-> [pc |-> "idle", db |-> 0]]
    /\ login = [l \in Logins |-> IdleLogin]
    /\ changePassword = [c \in Changes |-> IdleChange]
    /\ authLog = [lastChange |-> {}, since |-> [l \in Logins |-> FALSE],
                  atLogout |-> [l \in Logins |-> FALSE]]

\* the page is loaded where the site has no database
Loaded(item, libraries) == NoDatabase /\ Started(item, libraries)

\* the first load of the page in a new tab
Init == Loaded({}, AllLoaded)

\* the page is loaded again in a tab where a login has set the session item,
\* after the database of the site has been deleted
InitSession == Loaded({"true"}, AllLoaded)

\* the page is loaded with or without a database of an earlier visit
InitDisk == (NoDatabase \/ Stored) /\ Started({}, AllLoaded)

\* the first load of the page, with any of the export libraries missing
InitExports == \E libraries \in Libraries : Loaded({}, libraries)

\* the connection, the settings load of the mount effect and the receipt forms
Next ==
    \/ \E p \in DOMAIN promises : OpenResolve(p)
    \/ StartLoadSettings
    \/ LoadSettingsGet(MOUNT_EFFECT)
    \/ LoadSettingsPut(MOUNT_EFFECT)
    \/ \E f \in Forms : OpenForm(f)
    \/ \E f \in Forms : FetchResolve(f)
    \/ \E f \in Forms, data \in ReceiptFormData : Submit(f, data)
    \/ \E f \in Forms : AddReceipt(f)
    \/ \E f \in Forms : CloseForm(f)

Spec == Init /\ [][Next]_vars

SpecDisk == InitDisk /\ [][Next]_vars

\* the same pages when the open of the database may fail
NextOpenFails ==
    \/ Next
    \/ \E p \in DOMAIN promises : OpenReject(p)
    \/ \E f \in Forms : FetchFails(f)
    \/ \E f \in Forms : AddReceiptFails(f)
    \/ LoadSettingsFails(MOUNT_EFFECT)

SpecOpenFails == Init /\ [][NextOpenFails]_vars

\* the connection, one receipt form and the expenses page
NextKeys ==
    \/ \E p \in DOMAIN promises : OpenResolve(p)
    \/ OpenForm(1)
    \/ FetchResolve(1)
    \/ \E data \in ReceiptFormData : Submit(1, data)
    \/ AddReceipt(1)
    \/ CloseForm(1)
    \/ OpenExpenses
    \/ CloseExpenses
    \/ \E m \in {"add", "subtract"} : SetMode(m)
    \/ \E data \in ExpenseFormData : SubmitExpense(data)
    \/ AddExpense
    \/ \E i \in 1..MaxLoads : LoadExpensesResolve(i)

SpecKeys == Init /\ [][NextKeys]_vars

\* the connection and the expenses page with its export
NextExpenses ==
    \/ \E p \in DOMAIN promises : OpenResolve(p)
    \/ OpenExpenses
    \/ CloseExpenses
    \/ \E m \in {"add", "subtract"} : SetMode(m)
    \/ \E data \in ExpenseFormData, a \in ExpenseAmounts :
          SubmitExpense([data EXCEPT !.amount = a])
    \/ AddExpense
    \/ \E i \in 1..MaxLoads : LoadExpensesResolve(i)
    \/ ExportExpenses

SpecExpenses == Init /\ [][NextExpenses]_vars

\* the connection, a receipt form, the list of the expenses page and the four
\* exports
NextExports ==
    \/ \E p \in DOMAIN promises : OpenResolve(p)
    \/ OpenForm(1)
    \/ FetchResolve(1)
    \/ \E data \in ReceiptFormData : Submit(1, data)
    \/ AddReceipt(1)
    \/ OpenExpenses
    \/ \E i \in 1..MaxLoads : LoadExpensesResolve(i)
    \/ ExportExpenses
    \/ ExportReceiptsPdf
    \/ ExportReceiptsExcel
    \/ \E receipt \in Range(receipts) : GenerateReceiptPdf(receipt)
    \/ CanvasDrawn

SpecExports == InitExports /\ [][NextExports]_vars

\* the connection, the settings load of the mount effect and the settings
\* page, its form saved again when the last save has returned
NextSettings ==
    \/ \E p \in DOMAIN promises : OpenResolve(p)
    \/ StartLoadSettings
    \/ \E k \in Loads : LoadSettingsGet(k)
    \/ \E k \in Loads : LoadSettingsPut(k)
    \/ OpenSettings
    \/ CloseSettings
    \/ \E type \in SignatureTypes : SelectSignatureType(type)
    \/ \E text \in TypedInputs : TypeSignature(text)
    \/ \E image \in DrawnImages : DrawSignature(image)
    \/ ClearSignature
    \/ SubmitSettings(1)
    \/ SaveSettingsPut(1)

SpecSettings == Init /\ [][NextSettings]_vars

\* the same with saves of the form that overlap
NextSaves ==
    \/ \E p \in DOMAIN promises : OpenResolve(p)
    \/ StartLoadSettings
    \/ \E k \in Loads : LoadSettingsGet(k)
    \/ \E k \in Loads : LoadSettingsPut(k)
    \/ OpenSettings
    \/ CloseSettings
    \/ \E type \in SignatureTypes : SelectSignatureType(type)
    \/ \E text \in TypedInputs : TypeSignature(text)
    \/ \E image \in DrawnImages : DrawSignature(image)
    \/ ClearSignature
    \/ \E s \in Saves : SubmitSettings(s)
    \/ \E s \in Saves : SaveSettingsPut(s)

SpecSaves == Init /\ [][NextSaves]_vars

\* the settings page with a save of the form and an upload of a signature
NextUpload ==
    \/ \E p \in DOMAIN promises : OpenResolve(p)
    \/ StartLoadSettings
    \/ \E k \in Loads : LoadSettingsGet(k)
    \/ \E k \in Loads : LoadSettingsPut(k)
    \/ OpenSettings
    \/ CloseSettings
    \/ \E type \in SignatureTypes : SelectSignatureType(type)
    \/ \E text \in TypedInputs : TypeSignature(text)
    \/ SubmitSettings(1)
    \/ SaveSettingsPut(1)
    \/ \E image \in UploadedImages : StartUpload(image)
    \/ FileRead
    \/ UploadPut

SpecUpload == Init /\ [][NextUpload]_vars

\* the connection, the startup seeding, login, logout and the change-password
\* form, submitted again when its last submit has returned
NextAuth ==
    \/ \E p \in DOMAIN promises : OpenResolve(p)
    \/ (\E s \in Startups : CheckAuthStart(s)) /\ UNCHANGED authLog
    \/ (\E s \in Startups : CheckAuthGet(s)) /\ UNCHANGED authLog
    \/ (\E s \in Startups : CheckAuthHash(s)) /\ UNCHANGED authLog
    \/ (\E s \in Startups : CheckAuthPut(s)) /\ UNCHANGED authLog
    \/ (\E l \in Logins, user \in Users, pass \in Passwords : LoginStart(l, user, pass))
          /\ UNCHANGED authLog
    \/ (\E l \in Logins : LoginGet(l)) /\ UNCHANGED authLog
    \/ (\E l \in Logins : LoginHash(l)) /\ UNCHANGED authLog
    \/ Logout /\ UNCHANGED authLog
    \/ (\E cur \in Passwords, new \in Passwords : ChangePasswordStart(1, cur, new))
          /\ UNCHANGED authLog
    \/ ChangePasswordGet(1) /\ UNCHANGED authLog
    \/ ChangePasswordHashCurrent(1) /\ UNCHANGED authLog
    \/ ChangePasswordHashNew(1) /\ UNCHANGED authLog
    \/ ChangePasswordPut(1) /\ UNCHANGED authLog

SpecAuth == Init /\ [][NextAuth]_vars

SpecSession == InitSession /\ [][NextAuth]_vars

\* the history of a step of login l: the call is noted when it starts after a
\* change of password has succeeded, until it returns
LoginLogged(l) ==
    authLog' = [authLog EXCEPT !.since[l] =
                  /\ login'[l].pc \in {"awaitGet", "awaitHash"}
                  /\ IF login[l].pc \in {"idle", "done"}
                     THEN authLog.lastChange # {}
                     ELSE authLog.since[l],
                                !.atLogout[l] =
                  /\ login'[l].pc \in {"awaitGet", "awaitHash"}
                  /\ login[l].pc \notin {"idle", "done"}
                  /\ authLog.atLogout[l]]

\* the history of the write of changePassword c: it is the last change, and
\* no login in flight was called after it
ChangeLogged(c) ==
    authLog' = [lastChange |-> {[old |-> changePassword[c].currentPassword,
                                 new |-> changePassword[c].newPassword]},
                since |-> [l \in Logins |-> FALSE],
                atLogout |-> authLog.atLogout]

\* the history of a logout: the logins that are in flight
LogoutLogged ==
    authLog' = [authLog EXCEPT !.atLogout =
                  [l \in Logins |-> login[l].pc \in {"awaitGet", "awaitHash"}]]

\* NextAuth with the history kept
NextAuthLog ==
    \/ \E p \in DOMAIN promises : OpenResolve(p)
    \/ (\E s \in Startups : CheckAuthStart(s)) /\ UNCHANGED authLog
    \/ (\E s \in Startups : CheckAuthGet(s)) /\ UNCHANGED authLog
    \/ (\E s \in Startups : CheckAuthHash(s)) /\ UNCHANGED authLog
    \/ (\E s \in Startups : CheckAuthPut(s)) /\ UNCHANGED authLog
    \/ \E l \in Logins, user \in Users, pass \in Passwords :
          LoginStart(l, user, pass) /\ LoginLogged(l)
    \/ \E l \in Logins : LoginGet(l) /\ LoginLogged(l)
    \/ \E l \in Logins : LoginHash(l) /\ LoginLogged(l)
    \/ Logout /\ LogoutLogged
    \/ (\E cur \in Passwords, new \in Passwords : ChangePasswordStart(1, cur, new))
          /\ UNCHANGED authLog
    \/ ChangePasswordGet(1) /\ UNCHANGED authLog
    \/ ChangePasswordHashCurrent(1) /\ UNCHANGED authLog
    \/ ChangePasswordHashNew(1) /\ UNCHANGED authLog
    \/ ChangePasswordPut(1) /\ ChangeLogged(1)

SpecAuthLog == Init /\ [][NextAuthLog]_vars

\* the connection, one startup, one login at a time and the submits of the
\* change-password form, which may overlap
NextChange ==
    \/ \E p \in DOMAIN promises : OpenResolve(p)
    \/ CheckAuthStart(1) /\ UNCHANGED authLog
    \/ CheckAuthGet(1) /\ UNCHANGED authLog
    \/ CheckAuthHash(1) /\ UNCHANGED authLog
    \/ CheckAuthPut(1) /\ UNCHANGED authLog
    \/ (\E user \in Users, pass \in Passwords : LoginStart(1, user, pass))
          /\ UNCHANGED authLog
    \/ LoginGet(1) /\ UNCHANGED authLog
    \/ LoginHash(1) /\ UNCHANGED authLog
    \/ (\E c \in Changes, cur \in Passwords, new \in Passwords :
          ChangePasswordStart(c, cur, new)) /\ UNCHANGED authLog
    \/ (\E c \in Changes : ChangePasswordGet(c)) /\ UNCHANGED authLog
    \/ (\E c \in Changes : ChangePasswordHashCurrent(c)) /\ UNCHANGED authLog
    \/ (\E c \in Changes : ChangePasswordHashNew(c)) /\ UNCHANGED authLog
    \/ (\E c \in Changes : ChangePasswordPut(c)) /\ UNCHANGED authLog

SpecChange == Init /\ [][NextChange]_vars

\* ================================================================ claims
\* the connection handles the flows hold
Handles ==
    ({ fetchLastReceipt[f].db : f \in Forms } \cup { onSubmit[f].db : f \in Forms }
       \cup { loadSettings[k].db : k \in Loads } \cup { settingsSubmit[s].db : s \in Saves }
       \cup {fileUpload.db}
       \cup { expenseSubmit.db } \cup Range(loadExpenses)
       \cup { checkAuth[s].db : s \in Startups } \cup { login[l].db : l \in Logins }
       \cup { changePassword[c].db : c \in Changes }) \ {0}

\* the flows that wait for the connection
Waiting ==
    { <<"fetch", f>> : f \in { g \in Forms : fetchLastReceipt[g].pc = "awaitDB" } }
      \cup { <<"submit", f>> : f \in { g \in Forms : onSubmit[g].pc = "awaitDB" } }
      \cup { <<"settings", k>> :
                k \in { j \in Loads : loadSettings[j].pc \in {"awaitGet", "awaitPut"} } }

\* the receipt number of sequence n, written out case by case
NumberOfSequence(n) ==
    CASE n < 10 -> "NSM-000" \o ToString(n)
      [] n >= 10 /\ n < 100 -> "NSM-00" \o ToString(n)
      [] n >= 100 /\ n < 1000 -> "NSM-0" \o ToString(n)
      [] OTHER -> "NSM-" \o ToString(n)

WithNumber(n) == { i \in DOMAIN receipts : receipts[i].receiptNumber = n }

\* the add of form f runs in this step
AddRuns(f) == onSubmit[f].pc = "awaitDB" /\ onSubmit'[f].pc # "awaitDB"

\* C1: whatever the number and the interleaving of the getDB() calls, openDB
\* is called at most once, its upgrade callback runs at most once, and every
\* caller holds the one promise stored in dbPromise.
C1_SingleOpen ==
    /\ Len(promises) <= 1
    /\ upgradeCalls <= 1
    /\ \A h \in Handles : h = dbPromise

\* two flows called getDB() before the open resolved and wait on its promise
C1_Witness ==
    /\ promises = <<"pending">>
    /\ Cardinality(Waiting) >= 2
    /\ Handles = {1}

\* C2: no two stored receipts have the same receiptNumber.
C2_UniqueReceiptNumber ==
    \A i, j \in DOMAIN receipts :
        i # j => receipts[i].receiptNumber # receipts[j].receiptNumber

\* two receipts are stored and an add of a number in use has been rejected
C2_Witness ==
    /\ Len(receipts) >= 2
    /\ \E f \in Forms : /\ onSubmit[f].pc = "rejected"
                        /\ \E rec \in onSubmit[f].newReceipt :
                              WithNumber(rec.receiptNumber) # {}

\* C3: of the adds of one receiptNumber exactly one succeeds; an add of a
\* number that is stored fails with a ConstraintError and leaves the receipts
\* collection as it was, an add of a number that is not stored succeeds.
C3_Step ==
    \A f \in Forms : AddRuns(f) =>
        \A rec \in onSubmit[f].newReceipt :
            IF WithNumber(rec.receiptNumber) # {}
            THEN /\ onSubmit'[f].error = "ConstraintError"
                 /\ onSubmit'[f].key = 0
                 /\ receipts' = receipts
            ELSE /\ onSubmit'[f].error = ""
                 /\ SubSeq(receipts', 1, Len(receipts)) = receipts
                 /\ Len(receipts') = Len(receipts) + 1
                 /\ receipts'[Len(receipts')].receiptNumber = rec.receiptNumber
                 /\ onSubmit'[f].key = receipts'[Len(receipts')].id

C3_DuplicateAddRejected ==
    /\ [](\A n \in addLog : Cardinality(WithNumber(n)) = 1)
    /\ [][C3_Step]_vars

\* two submits of one number have settled, one stored and one rejected
C3_Witness ==
    \E f, g \in Forms :
        /\ onSubmit[f].pc = "navigated"
        /\ onSubmit[g].pc = "rejected"
        /\ onSubmit[g].error = "ConstraintError"
        /\ onSubmit[f].newReceipt # {}
        /\ { r.receiptNumber : r \in onSubmit[f].newReceipt }
             = { r.receiptNumber : r \in onSubmit[g].newReceipt }

\* form f has fetched the count n, has submitted with it and the add has settled
Settled(f, n) ==
    /\ fetchLastReceipt[f].pc = "done"
    /\ form[f].receiptCount = n
    /\ onSubmit[f].pc \in {"navigated", "rejected"}
    /\ \E rec \in onSubmit[f].newReceipt : rec.receiptNumber = NumberOfSequence(n + 1)

C4_State ==
    \A f, g \in Forms : \A n \in 0..MaxReceipts :
        (f # g /\ Settled(f, n) /\ Settled(g, n)) =>
            /\ ~(onSubmit[f].pc = "navigated" /\ onSubmit[g].pc = "navigated")
            /\ Cardinality(WithNumber(NumberOfSequence(n + 1))) = 1
            /\ \A h \in {f, g} : onSubmit[h].pc = "rejected" =>
                   /\ onSubmit[h].error = "ConstraintError"
                   /\ onSubmit[h].key = 0

C4_Step ==
    \A f \in Forms : AddRuns(f) =>
        \A rec \in onSubmit[f].newReceipt :
            /\ (rec.receiptNumber \notin addLog) =>
                   /\ onSubmit'[f].pc = "navigated"
                   /\ rec.receiptNumber = NumberOfSequence(Len(receipts) + 1)
            /\ (rec.receiptNumber \in addLog) =>
                   /\ onSubmit'[f].pc = "rejected"
                   /\ form' = form
                   /\ onSubmit'[f].newReceipt = onSubmit[f].newReceipt
                   /\ receipts' = receipts

\* C4: when two forms that observed the same count n both submit, the first
\* add of sequence n+1 is stored and every later one is rejected with a
\* ConstraintError that leaves onSubmit: the page stays mounted (no
\* navigation), the submission keeps its number (no retry) and the store holds
\* exactly one receipt numbered n+1.
C4_LoserRejected == []C4_State /\ [][C4_Step]_vars

\* both forms fetched the same count; one add was stored, the other rejected
\* and its page is still mounted
C4_Witness ==
    \E f, g \in Forms : \E n \in 0..MaxReceipts :
        /\ f # g /\ Settled(f, n) /\ Settled(g, n)
        /\ onSubmit[f].pc = "navigated"
        /\ onSubmit[g].pc = "rejected"
        /\ form[g].mounted

\* onSubmit of form f is called in this step
SubmitRuns(f) == onSubmit[f].pc # "awaitDB" /\ onSubmit'[f].pc = "awaitDB"

\* C5 as stated: every submit, also one made before the count fetch has
\* completed or after other receipts were added, carries the number of
\* (receipts in the store at that moment) + 1.
C5_EverySubmitUsesStoreCount ==
    [][\A f \in Forms : SubmitRuns(f) =>
          \A rec \in onSubmit'[f].newReceipt :
              rec.receiptNumber = NumberOfSequence(Len(receipts) + 1)]_vars

C5_Step ==
    \A f \in Forms :
        /\ SubmitRuns(f) =>
              \A rec \in onSubmit'[f].newReceipt :
                  rec.receiptNumber = NumberOfSequence(form[f].receiptCount + 1)
        /\ AddRuns(f) =>
              \A rec \in onSubmit[f].newReceipt :
                  IF rec.receiptNumber = NumberOfSequence(Len(receipts) + 1)
                  THEN /\ Len(receipts') = Len(receipts) + 1
                       /\ receipts'[Len(receipts')].receiptNumber
                            = NumberOfSequence(Len(receipts) + 1)
                  ELSE /\ receipts' = receipts
                       /\ onSubmit'[f].pc = "rejected"

\* C5 amended: a submit carries "NSM-" and (the count its form last fetched,
\* 0 before the fetch completes) + 1 padded to 4 digits; an add stores a
\* receipt only when that number is (receipts in the store at the add) + 1,
\* and is rejected, storing nothing, otherwise.
C5_StoredNumberIsCountPlusOne == [][C5_Step]_vars

\* receipts were stored with the fetched count and a submit made with a stale
\* count was rejected
C5_Witness ==
    /\ Len(receipts) >= 2
    /\ \E f \in Forms : /\ onSubmit[f].pc = "navigated"
                        /\ form[f].receiptCount >= 1
    /\ \E f \in Forms : /\ onSubmit[f].pc = "rejected"
                        /\ \E rec \in onSubmit[f].newReceipt :
                              rec.receiptNumber # NumberOfSequence(Len(receipts) + 1)

Keys(store) == { store[i].id : i \in DOMAIN store }

C6_Step ==
    /\ Len(receipts') > Len(receipts) =>
          \A k \in Keys(receipts) : receipts'[Len(receipts')].id > k
    /\ Len(expenses') > Len(expenses) =>
          \A k \in Keys(expenses) : expenses'[Len(expenses')].id > k
    /\ \A i \in DOMAIN receipts : i \in DOMAIN receipts' /\ receipts'[i].id = receipts[i].id
    /\ \A i \in DOMAIN expenses : i \in DOMAIN expenses' /\ expenses'[i].id = expenses[i].id

\* C6: the key the store gives a new receipt, or a new expense, is greater
\* than every key of its collection, also after rejected adds, keys of stored
\* records never change, and no key belongs to two records.
C6_KeysIncrease ==
    /\ [](/\ Cardinality(Keys(receipts)) = Len(receipts)
          /\ Cardinality(Keys(expenses)) = Len(expenses)
          /\ \A k \in Keys(receipts) \cup Keys(expenses) : k >= 1)
    /\ [][C6_Step]_vars

\* receipts and expenses were added and an add of a receipt was rejected
C6_Witness ==
    /\ Len(receipts) >= 2
    /\ Len(expenses) >= 2
    /\ onSubmit[1].pc = "rejected"

\* C7: from an empty store, the settings load publishes the default record
\* with id 1, the first receipt stored has key 1 and number "NSM-0001", the
\* second has key 2 and number "NSM-0002", and a submit that navigated was
\* given the key of the record that carries its number.
C7_EndToEnd ==
    /\ loadSettings[MOUNT_EFFECT].pc = "done" =>
          /\ settingsCtx = { [id |-> 1, adminName |-> "Admin",
                              blockNumber |-> "Society Office",
                              signatureType |-> "typed",
                              typedSignature |-> "For Neelkanth Society",
                              drawnSignature |-> "", uploadedSignature |-> ""] }
          /\ settings = settingsCtx
    /\ Len(receipts) >= 1 =>
          receipts[1].id = 1 /\ receipts[1].receiptNumber = "NSM-0001"
    /\ Len(receipts) >= 2 =>
          receipts[2].id = 2 /\ receipts[2].receiptNumber = "NSM-0002"
    /\ \A f \in Forms : onSubmit[f].pc = "navigated" =>
          /\ onSubmit[f].key \in DOMAIN receipts
          /\ \A rec \in onSubmit[f].newReceipt :
                receipts[onSubmit[f].key] = [rec EXCEPT !.id = onSubmit[f].key]

\* the settings were loaded, then two receipts with the same fields were
\* created one after the other and were given the keys 1 and 2
C7_Witness ==
    /\ loadSettings[MOUNT_EFFECT].pc = "done"
    /\ Len(receipts) = 2
    /\ receipts[1].name = "A" /\ receipts[1].amount = 500
    /\ [receipts[2] EXCEPT !.id = 1, !.receiptNumber = "NSM-0001"] = receipts[1]
    /\ \E f, g \in Forms : /\ f # g
                           /\ onSubmit[f].pc = "navigated" /\ onSubmit[f].key = 1
                           /\ onSubmit[g].pc = "navigated" /\ onSubmit[g].key = 2

\* the credential record login or changePassword read matches the password
DigestMatches(pass, credentials) ==
    /\ credentials # {}
    /\ \A c \in credentials : c.username = "admin" /\ c.passwordHash = sha256(pass)

\* login l returns in this step
LoginReturns(l) == login'[l] # login[l] /\ login'[l].pc = "done"

C8_Step ==
    \A l \in Logins :
        /\ (login[l].pc = "awaitGet" /\ login'[l].pc = "awaitHash") =>
               login'[l].credentials = auth
        /\ LoginReturns(l) =>
               (login'[l].result <=>
                   /\ login'[l].user = "admin"
                   /\ login[l].pc = "awaitHash"
                   /\ DigestMatches(login[l].pass, login[l].credentials))
        /\ login'[l] # login[l] =>
               IF login'[l].pc = "done" /\ login'[l].result
               THEN isAuthenticated' /\ sessionStorage' = {"true"}
               ELSE UNCHANGED <<isAuthenticated, sessionStorage>>

\* C8: login returns true exactly when the user is 'admin', the lookup of the
\* credential found a record and the digest of the password equals the
\* passwordHash of that record; returning true it sets the authenticated flag
\* and the session item, and in every other case it leaves both unchanged.
C8_LoginVerifies ==
    /\ [](\A l \in Logins : login[l].pc = "awaitHash" =>
             login[l].user = "admin" /\ login[l].credentials # {})
    /\ [][C8_Step]_vars

\* a login of 'admin' with the stored password has returned true, and the
\* flag and the session item are set
C8_Witness ==
    \E l \in Logins : /\ login[l].pc = "done"
                      /\ login[l].result
                      /\ login[l].user = "admin"
                      /\ isAuthenticated
                      /\ sessionStorage = {"true"}

\* the seeding of startup s writes in this step
SeedWrites(s) == checkAuth[s].pc = "awaitPut" /\ checkAuth'[s].pc = "done"

\* C9: the startup seeding is a no-op once a credential exists: when its
\* write runs and a credential is stored, the credential stays as it is.
C9_SeedingKeepsCredential ==
    [][\A s \in Startups : SeedWrites(s) =>
          (Get(auth, "username", "admin") # {} => auth' = auth)]_vars

\* changePassword c writes in this step
ChangeWrites(c) == changePassword[c].pc = "awaitPut" /\ changePassword'[c].pc = "done"

C10_State ==
    \A c \in Changes :
        /\ changePassword[c].pc \in {"awaitHashCurrent", "awaitHashNew", "awaitPut"} =>
              changePassword[c].credentials # {}
        /\ changePassword[c].pc \in {"awaitHashNew", "awaitPut"} =>
              DigestMatches(changePassword[c].currentPassword, changePassword[c].credentials)

C10_Step ==
    \A c \in Changes : changePassword'[c] # changePassword[c] =>
        /\ (changePassword[c].pc = "awaitGet" /\ changePassword'[c].pc = "awaitHashCurrent") =>
               changePassword'[c].credentials = auth
        /\ (changePassword[c].pc = "awaitHashCurrent" /\ changePassword'[c].pc = "done") =>
               /\ ~DigestMatches(changePassword[c].currentPassword,
                                 changePassword[c].credentials)
               /\ changePassword'[c].message = "error"
        /\ IF ChangeWrites(c)
           THEN /\ auth' = { [username |-> "admin",
                              passwordHash |-> sha256(changePassword[c].newPassword)] }
                /\ changePassword'[c].message = "success"
           ELSE /\ auth' = auth
                /\ changePassword'[c].message # "success"

\* C10: changePassword writes the digest of the new password over the stored
\* one exactly when the digest of the current password equals the
\* passwordHash of the credential it looked up; when they differ, or no
\* credential was found, it does not write and the stored credential stays.
C10_ChangeNeedsCurrent == []C10_State /\ [][C10_Step]_vars

\* one change with the right current password has replaced the digest, and
\* the next change, with a wrong current password, has ended with the error
\* message
C10_Witness ==
    /\ auth = { [username |-> "admin", passwordHash |-> sha256("s3cret")] }
    /\ changePassword[1].pc = "done"
    /\ changePassword[1].message = "error"

\* changePassword c returns in this step
ChangeReturns(c) ==
    changePassword[c].pc \notin {"idle", "done"} /\ changePassword'[c].pc = "done"

\* C11: every changePassword that returns without having written the new
\* digest has set the error message, also when it found no credential record.
C11_FailureReported ==
    [][\A c \in Changes : (ChangeReturns(c) /\ ~ChangeWrites(c)) =>
          changePassword'[c].message = "error"]_vars

\* C12: a login of 'admin' called after the last changePassword(old, new)
\* that succeeded, with old # new, returns true with new and false with old.
C12_LoginAfterChange ==
    [][\A l \in Logins : (LoginReturns(l) /\ authLog.since[l]) =>
          \A ch \in authLog.lastChange : ch.old # ch.new =>
              /\ login[l].pass = ch.new => login'[l].result
              /\ login[l].pass = ch.old => ~login'[l].result]_vars

\* C13: from a store without a credential, a login of 'admin' with the default
\* password that returns before any change of password has succeeded returns
\* true (login is called once the application has mounted).
C13_DefaultLoginSucceeds ==
    [][\A l \in Logins :
          (/\ LoginReturns(l)
           /\ login[l].pc # "idle" /\ login[l].pc # "done"
           /\ login[l].user = "admin" /\ login[l].pass = "google"
           /\ authLog.lastChange = {}) => login'[l].result]_vars

\* C14: every record of the auth store is keyed 'admin', and from the moment
\* a startup seeding has completed the store holds exactly one record.
C14_OneAdminRecord ==
    /\ \A r \in auth : r.username = "admin"
    /\ (\E s \in Startups : checkAuth[s].pc = "done") => Cardinality(auth) = 1

\* every seeding has completed, one of them having written the default, and a
\* change of password has replaced the digest
C14_Witness ==
    /\ \A s \in Startups : checkAuth[s].pc = "done"
    /\ auth = { [username |-> "admin", passwordHash |-> sha256("s3cret")] }

\* C15: once a credential is stored its digest is replaced only by the write
\* of a changePassword, and when that write runs the digest of its current
\* password is the digest stored at that moment.
C15_WriteHoldsProof ==
    [][/\ (auth # {} /\ auth' # auth) => \E c \in Changes : ChangeWrites(c)
       /\ \A c \in Changes : ChangeWrites(c) =>
              DigestMatches(changePassword[c].currentPassword, auth)]_vars

\* a load call returns in this step
LoadReturns(k) == loadSettings[k].pc \in {"awaitGet", "awaitPut"}
                    /\ loadSettings'[k].pc \in {"idle", "done"}

\* the hard-coded default, with the fixed key
DefaultRecord ==
    [id |-> 1, adminName |-> "Admin", blockNumber |-> "Society Office",
     signatureType |-> "typed", typedSignature |-> "For Neelkanth Society",
     drawnSignature |-> "", uploadedSignature |-> ""]

C16_Step ==
    \A k \in Loads :
        /\ (loadSettings[k].pc = "awaitGet" /\ loadSettings'[k] # loadSettings[k]
               /\ settings = {}) => loadSettings'[k].pc = "awaitPut"
        /\ (loadSettings[k].pc = "awaitPut" /\ loadSettings'[k] # loadSettings[k]) =>
               settings' = {DefaultRecord}
        /\ LoadReturns(k) => Cardinality(settings') = 1

\* C16: the settings store holds at most one record and its id is 1; a load
\* that finds no record writes the default, and when a load has completed
\* the store holds exactly one record.
C16_SettingsSingleton ==
    /\ [](/\ Cardinality(settings) <= 1
          /\ \A r \in settings : r.id = 1
          /\ settingsCtx # {} => Cardinality(settings) = 1)
    /\ [][C16_Step]_vars

\* the first load has created the default and a save of the form has
\* replaced it by another record, which the load of that save has read
C16_Witness ==
    /\ loadSettings[MOUNT_EFFECT].pc = "done"
    /\ settings # {DefaultRecord}
    /\ settingsCtx = settings
    /\ \A s \in Saves : settingsSubmit[s].pc = "idle"

C17_Step ==
    \A k \in Loads : LoadReturns(k) =>
        /\ settingsCtx' = settings'
        /\ IF settings # {}
           THEN loadSettings[k].pc = "awaitGet" /\ settingsCtx' = settings
           ELSE loadSettings[k].pc = "awaitPut" /\ settingsCtx' = {DefaultRecord}

\* C17: a load that returns publishes the record that is in the store at that
\* moment: the stored record when there is one, and otherwise the hard-coded
\* default with id 1, which it has stored.
C17_LoadReturnsStored == [][C17_Step]_vars

\* the mount load has stored and published the default, and a later load
\* has published a record that a save had stored
C17_Witness ==
    /\ loadSettings[MOUNT_EFFECT].pc = "done"
    /\ settingsCtx = settings
    /\ \E r \in settingsCtx : r.signatureType = "drawn" /\ r.drawnSignature # ""

\* save s writes in this step
SaveWrites(s) == settingsSubmit[s].pc = "awaitPut" /\ settingsSubmit'[s].pc # "awaitPut"

\* C18: a save of the settings form leaves the signature payloads it does not
\* carry as they are stored just before it writes: the uploaded signature
\* always, the drawn signature when the sigPad held no drawing, and the typed
\* signature when the form held the one that was loaded.
C18_SaveKeepsOmitted ==
    [][\A s \in Saves : SaveWrites(s) =>
          \A old \in settings : \A new \in settings' :
              /\ new.uploadedSignature = old.uploadedSignature
              /\ ~settingsSubmit[s].padDrawn => new.drawnSignature = old.drawnSignature
              /\ ~settingsSubmit[s].typedEdited =>
                     new.typedSignature = old.typedSignature]_vars

\* onSubmit is called in this step
ExpenseSubmitted == expenseSubmit.pc = "idle" /\ expenseSubmit'.pc = "awaitDB"

\* addExpense stores in this step
ExpenseStored == expenseSubmit.pc = "awaitDB" /\ expenseSubmit'.pc = "idle"

\* C19: a submit in mode 'add' hands addExpense the entered amount, which is
\* positive, and a submit in mode 'subtract' its negation, by the mode the
\* page is in when the submit happens; addExpense stores that amount, whatever
\* the mode has become.
C19_SignByMode ==
    [][/\ ExpenseSubmitted =>
            \E a \in ExpenseAmounts : \A e \in expenseSubmit'.expense :
                /\ Number(a) > 0
                /\ expensesPage.mode = "add" => e.amount = Number(a)
                /\ expensesPage.mode = "subtract" => e.amount = -Number(a)
       /\ ExpenseStored =>
            /\ Len(expenses') = Len(expenses) + 1
            /\ \A e \in expenseSubmit.expense :
                  expenses'[Len(expenses')].amount = e.amount]_vars

\* an income and an outlay are stored, the outlay submitted in mode
\* 'subtract' and stored after the mode was set back to 'add'
C19_Witness ==
    /\ Len(expenses) = 2
    /\ expenses[1].amount = 500
    /\ expenses[2].amount = -250
    /\ expensesPage.mounted /\ expensesPage.mode = "add"
    /\ expensesPage.expenses = <<>>

RECURSIVE SumAmounts(_)
\* the sum of the amounts of a list of expenses
SumAmounts(list) ==
    IF list = <<>> THEN 0 ELSE list[1].amount + SumAmounts(Tail(list))

\* C20: the net balance of a saved report is its total income minus its total
\* expense and equals the sum of the amounts of its rows; and on the page,
\* when no add and no reload is under way, the balance shown is the sum of
\* the amounts in the expenses store.
C20_NetBalanceIsSum ==
    /\ \A r \in savedReport :
          /\ r.netBalance = r.totalIncome - r.totalExpense
          /\ r.netBalance = reduce(r.body, 0)
    /\ (expensesPage.mounted /\ expenseSubmit.pc = "idle" /\ loadExpenses = <<>>) =>
          totalExpenses = SumAmounts(expenses)

\* an income and an outlay are stored, reloaded and exported
C20_Witness ==
    /\ expensesPage.mounted /\ expenseSubmit.pc = "idle" /\ loadExpenses = <<>>
    /\ Len(expenses) = 2 /\ Len(expensesPage.expenses) = 2
    /\ totalExpenses = 250
    /\ \E r \in savedReport :
          r.totalIncome = 500 /\ r.totalExpense = 250 /\ r.netBalance = 250

\* the capability an export needs is there
Available(op) ==
    CASE op = "generateReceiptPdf" -> window.html2canvas /\ window.jspdf # "undefined"
      [] op = "exportReceiptsToExcel" -> window.XLSX
      [] OTHER -> window.jspdf = "autotable"

\* C21: an export called without its rendering capability shows a message,
\* saves no file and does not throw, and a file is saved only with the
\* capability there.
C21_ExportWithoutCapability ==
    exportCall.op # "" =>
        /\ ~Available(exportCall.op) =>
              /\ exportCall.alert # {}
              /\ exportCall.saved = {}
              /\ exportCall.thrown = {}
        /\ exportCall.saved # {} => Available(exportCall.op)

\* openDB resolves in this step
Opens == \E p \in DOMAIN promises : promises[p] = "pending" /\ promises'[p] = "fulfilled"

\* the four collections with their key policies and indexes
FourStores ==
    { [name |-> "receipts", keyPath |-> "id", autoIncrement |-> TRUE,
       indexes |-> {[name |-> "receiptNumber", keyPath |-> "receiptNumber",
                     unique |-> TRUE]}],
      [name |-> "expenses", keyPath |-> "id", autoIncrement |-> TRUE, indexes |-> {}],
      [name |-> "settings", keyPath |-> "id", autoIncrement |-> FALSE, indexes |-> {}],
      [name |-> "auth", keyPath |-> "username", autoIncrement |-> FALSE,
       indexes |-> {}] }

\* C22: when the open resolves, every collection that exists stays as it is,
\* its records included, and the collections that are missing are created;
\* once the connection is open the four collections exist, each with its key
\* policy and receipts with the unique index on the receipt number.
C22_UpgradeCreatesMissing ==
    /\ []((\E p \in DOMAIN promises : promises[p] = "fulfilled") =>
            /\ objectStores = FourStores
            /\ objectStoreNames = { st.name : st \in FourStores })
    /\ [][Opens =>
            /\ objectStores \subseteq objectStores'
            /\ objectStoreNames \subseteq objectStoreNames'
            /\ <<receipts, receiptsKeyGen, expenses, expensesKeyGen, settings, auth>>'
                 = <<receipts, receiptsKeyGen, expenses, expensesKeyGen, settings, auth>>
            /\ (dbVersion = DB_VERSION) => UNCHANGED diskVars]_vars

\* the open has run the upgrade, which has created the four collections
C22_Witness ==
    /\ \E p \in DOMAIN promises : promises[p] = "fulfilled"
    /\ upgradeCalls = 1
    /\ Cardinality(objectStores) = 4

\* store before is a prefix of store after
Extends(before, after) ==
    /\ Len(after) >= Len(before)
    /\ \A i \in DOMAIN before : after[i] = before[i]

\* C23: a receipt or an expense that is stored stays stored under its key
\* with the same field values: every step leaves the records of both
\* collections as they are and at most appends to them.
C23_AppendOnly ==
    [][Extends(receipts, receipts') /\ Extends(expenses, expenses')]_vars

\* both collections have grown beyond their first record
C23_Witness ==
    /\ Len(receipts) >= 2 /\ receipts[1].id = 1
    /\ Len(expenses) >= 2 /\ expenses[1].id = 1
    /\ expenseSubmit.pc = "idle"

\* C25: the receipt numbers stored are NSM-0001 .. NSM-n, n the number of
\* receipts stored, the i-th receipt carrying the number of sequence i.
C25_NoGaps ==
    \A i \in DOMAIN receipts : receipts[i].receiptNumber = NumberOfSequence(i)

\* receipts are stored, a submit made before the count was loaded and one made
\* with a stale count have been rejected
C25_Witness ==
    /\ Len(receipts) >= 2
    /\ \E f \in Forms : onSubmit[f].pc = "rejected" /\ ~onSubmit[f].fetched
    /\ \E f \in Forms : onSubmit[f].pc = "rejected" /\ onSubmit[f].fetched

\* the receipt numbers of the submit of form f
SubmitNumbers(submit) == { r.receiptNumber : r \in submit.newReceipt }

\* C26 as stated: a resubmit of a form whose submit was rejected carries the
\* receipt number of the rejected submit.
C26_ResubmitSameNumber ==
    [][\A f \in Forms : (SubmitRuns(f) /\ onSubmit[f].pc = "rejected") =>
          SubmitNumbers(onSubmit'[f]) = SubmitNumbers(onSubmit[f])]_vars

C26_Step ==
    \A f \in Forms :
        /\ form'[f].receiptCount # form[f].receiptCount =>
              \/ ~form[f].mounted /\ form'[f].mounted
              \/ fetchLastReceipt[f].pc = "awaitDB" /\ fetchLastReceipt'[f].pc = "done"
        /\ (fetchLastReceipt'[f] # fetchLastReceipt[f]
               /\ fetchLastReceipt'[f].pc = "awaitDB") =>
              ~form[f].mounted /\ form'[f].mounted
        /\ (SubmitRuns(f) /\ onSubmit[f].pc = "rejected" /\ onSubmit[f].fetched) =>
              /\ SubmitNumbers(onSubmit'[f]) = SubmitNumbers(onSubmit[f])
              /\ \A n \in SubmitNumbers(onSubmit'[f]) : WithNumber(n) # {}

\* C26, amended: the count of a form is read once, by the fetch its opening
\* starts, and changes only when that fetch answers; a resubmit after a
\* rejected submit that was made with the fetched count carries the same
\* receipt number, which is stored, so that it is rejected again.
C26_ResubmitAfterFetch == [][C26_Step]_vars

\* a submit made with the fetched count has been rejected, its number is
\* stored and the form, still open with that count, can be submitted again
C26_Witness ==
    \E f \in Forms :
        /\ onSubmit[f].pc = "rejected" /\ onSubmit[f].fetched
        /\ form[f].mounted /\ form[f].receiptCount >= 1
        /\ SubmitNumbers(onSubmit[f]) = {receiptNumber(form[f].receiptCount)}
        /\ Len(receipts) < MaxReceipts

\* a login returns true in this step
LoginSucceeds == \E l \in Logins : LoginReturns(l) /\ login'[l].result

\* a run of the mount effect starts in this step
StartupStarts == \E st \in Startups : checkAuth[st].pc = "idle" /\ checkAuth'[st].pc # "idle"

C24_Step ==
    /\ (~isAuthenticated /\ isAuthenticated') =>
          \/ LoginSucceeds
          \/ StartupStarts /\ sessionStorage = {"true"}
    /\ (sessionStorage # {"true"} /\ sessionStorage' = {"true"}) => LoginSucceeds
    /\ (isAuthenticated /\ ~isAuthenticated') => sessionStorage' = {}
    /\ (sessionStorage # {} /\ sessionStorage' = {}) => ~isAuthenticated'

\* C24: a protected page is rendered only with the authenticated flag true;
\* the flag becomes true only when a login succeeds or when a startup finds
\* the session item, which only a login that succeeds sets; the step that
\* sets the flag false removes the session item, and the other way round.
C24_ProtectedPages ==
    /\ [](\A path \in Paths : Routes(path) \in ProtectedPages => isAuthenticated)
    /\ [][C24_Step]_vars

\* after a login and a logout a second run of the mount effect has left the
\* session closed; then a login has opened it and the pages are rendered
C24_Witness ==
    /\ isAuthenticated /\ sessionStorage = {"true"}
    /\ \A st \in Startups : checkAuth[st].pc = "done"
    /\ \E l \in Logins : login[l].pc = "done" /\ login[l].result
    /\ \A path \in Paths \ {"/login"} : Routes(path) \in ProtectedPages

\* C29: a login that was in flight when logout ran leaves the authenticated
\* flag and the session item as logout has set them when it returns.
C29_LogoutHolds ==
    [][\A l \in Logins : (LoginReturns(l) /\ authLog.atLogout[l]) =>
          /\ isAuthenticated' = isAuthenticated
          /\ sessionStorage' = sessionStorage]_vars

\* the save of the upload writes in this step
UploadWrites == fileUpload.pc = "awaitPut" /\ fileUpload'.pc = "awaitLoad"

\* C28: the save of an upload changes the uploaded signature only: the other
\* fields of the record it stores are those of the record stored just before.
C28_UploadChangesOneField ==
    [][UploadWrites =>
          \A old \in settings : \A new \in settings' :
              [new EXCEPT !.uploadedSignature = old.uploadedSignature] = old]_vars

\* load k writes the default record in this step
DefaultWrites(k) == loadSettings[k].pc = "awaitPut" /\ loadSettings'[k].pc # "awaitPut"

C30_Step ==
    /\ dbPromise # 0 => dbPromise' = dbPromise
    /\ \A p \in DOMAIN promises :
          /\ p \in DOMAIN promises'
          /\ promises[p] # "pending" => promises'[p] = promises[p]

\* after a failed open no store operation has succeeded: the disk and the
\* stores are untouched and every flow is idle, waiting or failed
C30_AllFail ==
    Rejected(dbPromise) =>
        /\ dbVersion = 0 /\ upgradeCalls = 0
        /\ receipts = <<>> /\ settings = {} /\ settingsCtx = {}
        /\ loadSettings[MOUNT_EFFECT].pc \in {"idle", "awaitGet", "failed"}
        /\ \A f \in Forms :
              /\ form[f].receiptCount = 0
              /\ fetchLastReceipt[f].pc \in {"idle", "awaitDB", "failed"}
              /\ onSubmit[f].pc \in {"idle", "awaitDB", "rejected"}
              /\ onSubmit[f].pc = "rejected" => onSubmit[f].error = "StorageUnavailable"

\* C30: dbPromise, once assigned by the first getDB(), is never cleared or
\* reassigned; when the first open fails, no second open is made and every
\* store operation fails with StorageUnavailable.
C30_PromiseKept ==
    /\ [](Len(promises) <= 1)
    /\ [](\A h \in Handles : h = dbPromise)
    /\ []C30_AllFail
    /\ [][C30_Step]_vars

\* the open has failed, a fetch and a submit have failed with it, and a
\* flow still waits on the same promise
C30_Witness ==
    /\ promises = <<"rejected">>
    /\ dbPromise = 1
    /\ \E f \in Forms : /\ fetchLastReceipt[f].pc = "failed"
                        /\ onSubmit[f].pc = "rejected"
                        /\ onSubmit[f].error = "StorageUnavailable"
    /\ Waiting # {}

====
